---- MODULE Spec2Model ----
(***************************************************************************)
(* Verification model of the watershed delineator repository:             *)
(*   - the stream-network longest path of app/morphometry.py              *)
(*     (_explode_lines, _node_streams, _cluster_endpoints, _build_graph,  *)
(*     _dijkstra, _network_longest_path_km);                              *)
(*   - the request wrapper delineate_point of delineator/__init__.py;     *)
(*   - compute of app/morphometry.py;                                     *)
(*   - the hypsometric table and its rendering of                         *)
(*     app/hypsometric_curve.py.                                          *)
(* Real numbers are modelled exactly: coordinates, lengths and areas are  *)
(* integers (metres, square metres), quotients are kept as fractions      *)
(* [num, den], and NaN is the record [nan |-> TRUE].                      *)
(***************************************************************************)
EXTENDS Integers, Sequences, FiniteSets, TLC

VARIABLES
    \* ---- stream network (morphometry.py, _network_longest_path_km) ----
    streams,      \* streams_gdf: "None" or a sequence of features
    npc,          \* position inside _network_longest_path_km
    base,         \* the rows returned by _explode_lines
    segments,     \* the list returned by _node_streams
    graph,        \* the defaultdict of _build_graph: [keys, adj]
    nodeA,        \* the far node of the first _dijkstra run
    result        \* the returned value: "NaN" or a fraction [num, den]

netVars == <<streams, npc, base, segments, graph, nodeA, result>>

VARIABLES
    \* ---- delineate_point (delineator/__init__.py) and its callers ----
    cfg,          \* the module delineator.config: [OUTLETS_CSV, MAKE_MAP]
    engine,       \* the globals of the module delineator._engine
    csvFiles,     \* the temporary CSV files: path -> the row written
    outFiles,     \* the files of cfg.OUTPUT_DIR: name -> the dataset
    dpc,          \* per request: its position in delineate_point
    dargs,        \* per request: (lat, lon, wid, area)
    dtmp,         \* per request: tmp_csv
    drun,         \* per request: the CSV path its engine run read
    dret,         \* per request: the path returned
    dgot,         \* per request: the dataset its caller read from that path
    dalone        \* per request: no other request was in flight when it began

delinVars ==
    <<cfg, engine, csvFiles, outFiles, dpc, dargs, dtmp, drun, dret, dgot, dalone>>

\* compute: the two layers and the raster it is called with, its position,
\* the elevation statistics and the value it returns
VARIABLES watershed_gdf, streams_gdf, dem_file, cpc, stats, morpho

compVars == <<watershed_gdf, streams_gdf, dem_file, cpc, stats, morpho>>

\* the hypsometric page (render): the clipped raster, the sidebar choices,
\* the valid samples, the class table, what is plotted and what is stored in
\* the session state
VARIABLES raster, pixel_area_m2, esquema, num_clases, orientacion, hpc, elev,
          tabla_base, x_vals, y_vals, hypsometric_table, hi

hypsVars == <<raster, pixel_area_m2, esquema, num_clases, orientacion, hpc, elev,
              tabla_base, x_vals, y_vals, hypsometric_table, hi>>

\* fast_dissolve.py: the function called, its arguments (a geometry, a
\* threshold, a layer), its position, the rectangle and the clip of
\* dissolve_geopandas, and what the call returns
VARIABLES fop, geom_in, area_max, df_in, fpc, rect, clipped, fout

dissVars == <<fop, geom_in, area_max, df_in, fpc, rect, clipped, fout>>

\* the two elevation-raster selectors: the raster files on disk, the
\* position, and for _autoselect_dem and _autoselect_dem_debug the sorted
\* candidates still to try and what the call returns
VARIABLES disk, spc, mcand, mret, hcand, hret

selVars == <<disk, spc, mcand, mret, hcand, hret>>

\* main.py and delineate.py: the entries of st.session_state written by the
\* Delimitar handler (the request that wrote each, 0 when absent), the
\* requests made, the output of the latest one, the layer check boxes and
\* what the map draws
VARIABLES session, nreq, latest, show, shown

sessVars == <<session, nreq, latest, show, shown>>

\* _get_utm_epsg: the centroid of the watershed in degrees, the position
\* and the code returned
VARIABLES centroid, upc, utm_epsg

utmVars == <<centroid, upc, utm_epsg>>

vars == <<netVars, delinVars, compVars, hypsVars, dissVars, selVars, sessVars, utmVars>>

notNet == <<delinVars, compVars, hypsVars, dissVars, selVars, sessVars, utmVars>>

notDelin == <<netVars, compVars, hypsVars, dissVars, selVars, sessVars, utmVars>>

notComp == <<netVars, delinVars, hypsVars, dissVars, selVars, sessVars, utmVars>>

notHyps == <<netVars, delinVars, compVars, dissVars, selVars, sessVars, utmVars>>

notDiss == <<netVars, delinVars, compVars, hypsVars, selVars, sessVars, utmVars>>

notSel == <<netVars, delinVars, compVars, hypsVars, dissVars, sessVars, utmVars>>

notSess == <<netVars, delinVars, compVars, hypsVars, dissVars, selVars, utmVars>>

notUtm == <<netVars, delinVars, compVars, hypsVars, dissVars, selVars, sessVars>>

NaN == [nan |-> TRUE]

Pending == [pending |-> TRUE]

(***************************************************************************)
(* Bounds of the model.                                                    *)
(***************************************************************************)
MaxFeatures == 3

(***************************************************************************)
(* Small helpers.                                                          *)
(***************************************************************************)
Abs(x) == IF x < 0 THEN -x ELSE x

Range(s) == {s[i] : i \in 1..Len(s)}

SeqsUpTo(S, n) == UNION {[1..k -> S] : k \in 0..n}

RECURSIVE SumSeq(_)
SumSeq(s) == IF s = <<>> THEN 0 ELSE Head(s) + SumSeq(Tail(s))

\* f extended (or overwritten) at key k: a Python dict assignment d[k] = v.
Put(f, k, v) == [x \in DOMAIN f \cup {k} |-> IF x = k THEN v ELSE f[x]]

SetMax(S) == CHOOSE x \in S : \A y \in S : y <= x

SetMin(S) == CHOOSE x \in S : \A y \in S : x <= y

EmptyMap == [x \in {} |-> 0]

(***************************************************************************)
(* Numbers.  A float is a fraction [num, den] in lowest terms, den > 0;    *)
(* NaN is [nan |-> TRUE]; a string value is [str |-> s]; an exception      *)
(* raised by an operation is [error |-> name].                             *)
(***************************************************************************)
RECURSIVE GCD(_, _)
GCD(a, b) == IF b = 0 THEN a ELSE GCD(b, a % b)

Frac(n, d) ==
    LET g == GCD(Abs(n), Abs(d))
        sgn == IF d < 0 THEN -1 ELSE 1
    IN  [num |-> sgn * (n \div g), den |-> sgn * (d \div g)]

Whole(n) == [num |-> n, den |-> 1]

Str(v) == [str |-> v]

Raised(name) == [error |-> name]

IsNaN(v) == v = NaN

IsError(v) == "error" \in DOMAIN v

IsNum(v) == "num" \in DOMAIN v

\* x * y and x / y of floats; NaN propagates, float division by zero raises
FMul(x, y) ==
    IF IsNaN(x) \/ IsNaN(y) THEN NaN
    ELSE LET g1 == GCD(Abs(x.num), y.den)
             g2 == GCD(Abs(y.num), x.den)
         IN  Frac((x.num \div g1) * (y.num \div g2), (x.den \div g2) * (y.den \div g1))

FDiv(x, y) ==
    IF IsNaN(x) \/ IsNaN(y) THEN NaN
    ELSE IF y.num = 0 THEN Raised("ZeroDivisionError")
    ELSE FMul(x, [num |-> (IF y.num < 0 THEN -1 ELSE 1) * y.den, den |-> Abs(y.num)])

FAdd(x, y) ==
    IF IsNaN(x) \/ IsNaN(y) THEN NaN
    ELSE Frac(x.num * y.den + y.num * x.den, x.den * y.den)

FSub(x, y) ==
    IF IsNaN(x) \/ IsNaN(y) THEN NaN
    ELSE Frac(x.num * y.den - y.num * x.den, x.den * y.den)

\* comparisons of floats: every comparison with NaN is False
FLess(x, y) == IsNum(x) /\ IsNum(y) /\ x.num * y.den < y.num * x.den

FLessEq(x, y) == IsNum(x) /\ IsNum(y) /\ x.num * y.den <= y.num * x.den

RECURSIVE ISqrtBetween(_, _, _)
ISqrtBetween(n, lo, top) ==
    IF lo >= top THEN lo
    ELSE LET mid == (lo + top + 1) \div 2
         IN  IF mid * mid <= n THEN ISqrtBetween(n, mid, top)
             ELSE ISqrtBetween(n, lo, mid - 1)

\* the integer part of the square root
ISqrt(n) == ISqrtBetween(n, 0, IF n < 46340 THEN n ELSE 46340)

\* x ** 0.5, to two decimals
FSqrt(x) == IF IsNaN(x) THEN NaN ELSE Frac(ISqrt((x.num * 10000) \div x.den), 100)

\* round(x, k): the nearest multiple of 1 / scale, scale = 10^k
Round(x, scale) ==
    IF IsNaN(x) THEN NaN
    ELSE Frac((2 * x.num * scale + x.den) \div (2 * x.den), scale)

(***************************************************************************)
(* Line geometries.  A LineString is [a, b, len]: its first coordinate,    *)
(* its last coordinate and its length in metres.  A feature (a row of a    *)
(* layer) is [null, parts]: null for a geometry that is None, else parts   *)
(* is its sequence of LineStrings: <<>> is an empty geometry, one element  *)
(* a LineString, more a MultiLineString.  A layer is [none, crs, den,     *)
(* rows]: none for the Python value None; crs is "none", "geographic" or   *)
(* "projected"; the coordinates and lengths of its rows are the integers   *)
(* written in the rows divided by den (metres for a projected layer,       *)
(* degrees for a geographic one).                                          *)
(***************************************************************************)
P0 == <<0, 0>>

P0near == <<20, 0>>          \* within the clustering tolerance of P0

\* within the tolerance of P0near, beyond it from P0
P0far == <<30, 15>>

P1 == <<100, 0>>

P2 == <<0, 200>>

P3 == <<300, 300>>

\* the reach drawn between two points runs parallel to the axes
ReachLen(a, b) == Abs(a[1] - b[1]) + Abs(a[2] - b[2])

Line(a, b, len) == [a |-> a, b |-> b, len |-> len]

Reach(a, b) == Line(a, b, ReachLen(a, b))

Lines ==
    {Reach(P0, P1), Reach(P0, P2), Reach(P0, P3),
     Reach(P1, P2), Reach(P1, P3), Reach(P2, P3),
     Reach(P3, P0), Reach(P3, P1), Reach(P3, P2),
     Reach(P0, P0near), Reach(P0near, P1), Reach(P2, P0near),
     Reach(P0far, P3),
     Line(P0, P0, 0)}                           \* a zero-length LineString

MultiLines == {<<Reach(P0, P1), Reach(P1, P2)>>, <<Reach(P2, P3), Reach(P2, P3)>>}

Geom(parts) == [null |-> FALSE, parts |-> parts]

NullGeom == [null |-> TRUE, parts |-> <<>>]

Features ==
    {NullGeom, Geom(<<>>)} \cup {Geom(<<l>>) : l \in Lines}
    \cup {Geom(parts) : parts \in MultiLines}

\* the model's projection: the metres to one degree
MetresPerDegree == 100

StreamLayer(crs, den, rows) == [none |-> FALSE, crs |-> crs, den |-> den, rows |-> rows]

\* a layer in a metric projection
Layer(rows) == StreamLayer("projected", 1, rows)

NoLayer == [none |-> TRUE, crs |-> "none", den |-> 1, rows |-> <<>>]

(***************************************************************************)
(* _explode_lines: one row per part, bit-identical duplicates dropped      *)
(* (the first one kept), then empty and null geometries dropped.           *)
(***************************************************************************)
RECURSIVE Explode(_)
Explode(fs) ==
    IF fs = <<>> THEN <<>>
    ELSE LET f == Head(fs)
             rows == IF f.null \/ f.parts = <<>> THEN <<f>>
                     ELSE [i \in 1..Len(f.parts) |-> Geom(<<f.parts[i]>>)]
         IN  rows \o Explode(Tail(fs))

RECURSIVE DropDuplicates(_, _)
DropDuplicates(rows, seen) ==
    IF rows = <<>> THEN <<>>
    ELSE IF Head(rows) \in seen THEN DropDuplicates(Tail(rows), seen)
    ELSE <<Head(rows)>> \o DropDuplicates(Tail(rows), seen \cup {Head(rows)})

IsGeom(row) == ~row.null /\ row.parts # <<>>

_explode_lines(fs) == SelectSeq(DropDuplicates(Explode(fs), {}), IsGeom)

(***************************************************************************)
(* _node_streams: unary_union of the rows, then every LineString of        *)
(* positive length.  The rows touch only at their end points, so the       *)
(* union changes no coordinates; it dissolves a line drawn twice (the      *)
(* same reach reversed), of which the first is kept.                       *)
(***************************************************************************)
Reversed(l) == Line(l.b, l.a, l.len)

RECURSIVE Dissolve(_, _)
Dissolve(rows, seen) ==
    IF rows = <<>> THEN <<>>
    ELSE IF Head(rows) \in seen \/ Reversed(Head(rows)) \in seen
         THEN Dissolve(Tail(rows), seen)
    ELSE <<Head(rows)>> \o Dissolve(Tail(rows), seen \cup {Head(rows)})

PositiveLength(l) == l.len > 0

_node_streams(rows) ==
    IF rows = <<>> THEN <<>>
    ELSE SelectSeq(Dissolve([i \in 1..Len(rows) |-> rows[i].parts[1]], {}),
                   PositiveLength)

(***************************************************************************)
(* _cluster_endpoints.  A cluster centre (cx, cy, count) is kept as the    *)
(* sums [sx, sy, n] of its members: the running update                     *)
(* cx + (x - cx) / new_count is the mean sx / n, and                       *)
(* (x - cx)^2 + (y - cy)^2 <= tol^2 is compared after multiplying by n^2.  *)
(* Cluster ids count from 0, as the list indices of the code.              *)
(***************************************************************************)
ENDPOINT_CLUSTER_TOL == 25

Within(p, c, tol) ==
    (c.n * p[1] - c.sx) * (c.n * p[1] - c.sx)
      + (c.n * p[2] - c.sy) * (c.n * p[2] - c.sy)
    <= tol * tol * c.n * c.n

\* the index (from 1) of the nearest centre within tolerance, 0 when none
MutNearestWithin(p, centers, tol) ==
    LET hits == {i \in 1..Len(centers) : Within(p, centers[i], tol)}
        d2(i) == (centers[i].n * p[1] - centers[i].sx) * (centers[i].n * p[1] - centers[i].sx)
                   + (centers[i].n * p[2] - centers[i].sy) * (centers[i].n * p[2] - centers[i].sy)
        closer(i, j) == d2(i) * centers[j].n * centers[j].n
                          < d2(j) * centers[i].n * centers[i].n
    IN  IF hits = {} THEN 0
        ELSE CHOOSE i \in hits :
                 \A j \in hits \ {i} : closer(i, j) \/ (~closer(j, i) /\ i < j)

\* the index (from 1) of the first centre within tolerance, 0 when none
FirstWithin(p, centers, tol) ==
    LET hits == {i \in 1..Len(centers) : Within(p, centers[i], tol)}
    IN  IF hits = {} THEN 0 ELSE CHOOSE i \in hits : \A j \in hits : i <= j

RECURSIVE ClusterLoop(_, _, _, _)
ClusterLoop(points, centers, mapping, tol) ==
    IF points = <<>> THEN [mapping |-> mapping, centers |-> centers]
    ELSE LET p == Head(points)
             i == FirstWithin(p, centers, tol)
         IN  IF i > 0
             THEN ClusterLoop(Tail(points),
                      [centers EXCEPT ![i] = [sx |-> @.sx + p[1],
                                              sy |-> @.sy + p[2],
                                              n  |-> @.n + 1]],
                      Put(mapping, p, i - 1), tol)
             ELSE ClusterLoop(Tail(points),
                      Append(centers, [sx |-> p[1], sy |-> p[2], n |-> 1]),
                      Put(mapping, p, Len(centers)), tol)

_cluster_endpoints(points, cluster_tol) ==
    ClusterLoop(points, <<>>, EmptyMap, cluster_tol)

(***************************************************************************)
(* _build_graph: the defaultdict(list) is [keys, adj], keys in insertion   *)
(* order and adj[u] the list of (v, w) pairs.                              *)
(***************************************************************************)
RECURSIVE Endpoints(_)
Endpoints(segs) ==
    IF segs = <<>> THEN <<>>
    ELSE <<Head(segs).a, Head(segs).b>> \o Endpoints(Tail(segs))

EmptyGraph == [keys |-> <<>>, adj |-> EmptyMap]

\* graph[u].append(item), the key created on first access
GraphAppend(g, u, item) ==
    IF u \in DOMAIN g.adj
    THEN [g EXCEPT !.adj[u] = Append(@, item)]
    ELSE [keys |-> Append(g.keys, u), adj |-> Put(g.adj, u, <<item>>)]

\* the loop without its `if n1 == n2: continue'
RECURSIVE MutEdgeLoopKeepsLoops(_, _, _)
MutEdgeLoopKeepsLoops(segs, mapping, g) ==
    IF segs = <<>> THEN g
    ELSE LET seg == Head(segs)
             n1 == mapping[seg.a]
             n2 == mapping[seg.b]
         IN  MutEdgeLoopKeepsLoops(Tail(segs), mapping,
                 GraphAppend(GraphAppend(g, n1, <<n2, seg.len>>),
                             n2, <<n1, seg.len>>))

\* the loop without its second append
RECURSIVE MutEdgeLoopOneWay(_, _, _)
MutEdgeLoopOneWay(segs, mapping, g) ==
    IF segs = <<>> THEN g
    ELSE LET seg == Head(segs)
             n1 == mapping[seg.a]
             n2 == mapping[seg.b]
         IN  IF n1 = n2 THEN MutEdgeLoopOneWay(Tail(segs), mapping, g)
             ELSE MutEdgeLoopOneWay(Tail(segs), mapping,
                      GraphAppend(g, n1, <<n2, seg.len>>))

RECURSIVE EdgeLoop(_, _, _)
EdgeLoop(segs, mapping, g) ==
    IF segs = <<>> THEN g
    ELSE LET seg == Head(segs)
             n1 == mapping[seg.a]
             n2 == mapping[seg.b]
         IN  IF n1 = n2 THEN EdgeLoop(Tail(segs), mapping, g)
             ELSE EdgeLoop(Tail(segs), mapping,
                      GraphAppend(GraphAppend(g, n1, <<n2, seg.len>>),
                                  n2, <<n1, seg.len>>))

_build_graph(segs, endpoint_cluster_tol) ==
    EdgeLoop(segs,
             _cluster_endpoints(Endpoints(segs), endpoint_cluster_tol).mapping,
             EmptyGraph)

(***************************************************************************)
(* _dijkstra.  dist is the dict, order its keys in insertion order, pq the *)
(* heap of (d, node) tuples: heappop takes the least tuple, compared on d  *)
(* and then on the node.                                                   *)
(***************************************************************************)
TupleLess(x, y) == x[1] < y[1] \/ (x[1] = y[1] /\ x[2] < y[2])

HeapMin(pq) == CHOOSE x \in pq : \A y \in pq \ {x} : TupleLess(x, y)

\* the loop without `or nd < dist[v]': the first distance found is kept
RECURSIVE MutRelaxLoopFirstSeen(_, _, _)
MutRelaxLoopFirstSeen(adjacent, d, st) ==
    IF adjacent = <<>> THEN st
    ELSE LET v  == Head(adjacent)[1]
             nd == d + Head(adjacent)[2]
         IN  IF v \notin DOMAIN st.dist
             THEN MutRelaxLoopFirstSeen(Tail(adjacent), d,
                      [dist  |-> Put(st.dist, v, nd),
                       order |-> Append(st.order, v),
                       pq    |-> st.pq \cup {<<nd, v>>}])
             ELSE MutRelaxLoopFirstSeen(Tail(adjacent), d, st)

RECURSIVE RelaxLoop(_, _, _)
RelaxLoop(adjacent, d, st) ==
    IF adjacent = <<>> THEN st
    ELSE LET v  == Head(adjacent)[1]
             w  == Head(adjacent)[2]
             nd == d + w
         IN  IF v \notin DOMAIN st.dist
             THEN RelaxLoop(Tail(adjacent), d,
                      [dist  |-> Put(st.dist, v, nd),
                       order |-> Append(st.order, v),
                       pq    |-> st.pq \cup {<<nd, v>>}])
             ELSE IF nd < st.dist[v]
             THEN RelaxLoop(Tail(adjacent), d,
                      [dist  |-> Put(st.dist, v, nd),
                       order |-> st.order,
                       pq    |-> st.pq \cup {<<nd, v>>}])
             ELSE RelaxLoop(Tail(adjacent), d, st)

RECURSIVE DijkstraLoop(_, _)
DijkstraLoop(g, st) ==
    IF st.pq = {} THEN st
    ELSE LET top    == HeapMin(st.pq)
             d      == top[1]
             u      == top[2]
             popped == [st EXCEPT !.pq = @ \ {top}]
         IN  IF d > st.dist[u] THEN DijkstraLoop(g, popped)
             ELSE DijkstraLoop(g, RelaxLoop(g.adj[u], d, popped))

\* max(dist.items(), key=value): the first key, in insertion order, whose
\* distance is the greatest
FarNode(dist, order) ==
    LET best == CHOOSE i \in 1..Len(order) :
                    /\ \A j \in 1..Len(order) : dist[order[j]] <= dist[order[i]]
                    /\ \A j \in 1..(i - 1) : dist[order[j]] < dist[order[i]]
    IN  order[best]

_dijkstra(g, start) ==
    LET st == DijkstraLoop(g, [dist  |-> Put(EmptyMap, start, 0),
                               order |-> <<start>>,
                               pq    |-> {<<0, start>>}])
    IN  [dist |-> st.dist, far_node |-> FarNode(st.dist, st.order)]

\* a length divided by 1000.0, the length being m / den
Km(m, den) == Frac(m, 1000 * den)

\* the tolerance in the integer units of the rows of a layer
TolOf(layer) == ENDPOINT_CLUSTER_TOL * layer.den

(***************************************************************************)
(* _network_longest_path_km, one action for each of its statements.        *)
(***************************************************************************)
NetReturn(v) == /\ result' = v
                /\ npc' = "done"

CheckInput ==
    /\ npc = "call"
    /\ IF streams.none \/ streams.rows = <<>>
       THEN NetReturn(NaN)
       ELSE npc' = "explode" /\ UNCHANGED result
    /\ UNCHANGED <<streams, base, segments, graph, nodeA>>
    /\ UNCHANGED notNet

ExplodeStep ==
    /\ npc = "explode"
    /\ base' = _explode_lines(streams.rows)
    /\ IF base' = <<>>
       THEN NetReturn(NaN)
       ELSE npc' = "node" /\ UNCHANGED result
    /\ UNCHANGED <<streams, segments, graph, nodeA>>
    /\ UNCHANGED notNet

NodeStep ==
    /\ npc = "node"
    /\ segments' = _node_streams(base)
    /\ IF segments' = <<>>
       THEN NetReturn(NaN)
       ELSE npc' = "build" /\ UNCHANGED result
    /\ UNCHANGED <<streams, base, graph, nodeA>>
    /\ UNCHANGED notNet

BuildStep ==
    /\ npc = "build"
    /\ graph' = _build_graph(segments, TolOf(streams))
    /\ IF graph'.keys = <<>>
       THEN NetReturn(NaN)
       ELSE npc' = "sweepA" /\ UNCHANGED result
    /\ UNCHANGED <<streams, base, segments, nodeA>>
    /\ UNCHANGED notNet

\* the start taken at the other end of the key list
MutStartNodeLast(g) == g.keys[Len(g.keys)]

StartNode(g) == g.keys[1]

SweepA ==
    /\ npc = "sweepA"
    /\ nodeA' = _dijkstra(graph, StartNode(graph)).far_node
    /\ npc' = "sweepB"
    /\ UNCHANGED <<streams, base, segments, graph, result>>
    /\ UNCHANGED notNet

\* the distance of the first run returned in place of the second run's
MutLongestFromFirstRun(g, a) == _dijkstra(g, StartNode(g)).dist[a]

LongestFrom(g, a) ==
    LET second == _dijkstra(g, a)
    IN  second.dist[second.far_node]

SweepB ==
    /\ npc = "sweepB"
    /\ NetReturn(Km(LongestFrom(graph, nodeA), streams.den))
    /\ UNCHANGED <<streams, base, segments, graph, nodeA>>
    /\ UNCHANGED notNet

NetStart ==
    /\ streams \in {NoLayer} \cup {Layer(rows) : rows \in SeqsUpTo(Features, MaxFeatures)}
    /\ npc = "call"
    /\ base = <<>>
    /\ segments = <<>>
    /\ graph = EmptyGraph
    /\ nodeA = -1
    /\ result = Pending

\* the network is not in use
NetIdle ==
    /\ streams = NoLayer
    /\ npc = "off"
    /\ base = <<>>
    /\ segments = <<>>
    /\ graph = EmptyGraph
    /\ nodeA = -1
    /\ result = Pending

NetStep ==
    \/ CheckInput
    \/ ExplodeStep
    \/ NodeStep
    \/ BuildStep
    \/ SweepA
    \/ SweepB

(***************************************************************************)
(* delineate_point.  Every request runs in its own thread of one process   *)
(* (one Streamlit script run per session), so the statements of two calls  *)
(* interleave; the modules delineator.config and delineator._engine are    *)
(* shared by all of them.                                                  *)
(***************************************************************************)
MaxRequests == 2

Reqs == 1..MaxRequests

NoArea == -1                 \* area=None

\* the clicks: four outlets on land, one in the open sea, far from every
\* drainage line, and one on a wrapped copy of the map, where the click has
\* the longitude -74 + 360
OutletArgs ==
    {[lat |-> 4, lon |-> -74, wid |-> "custom", area |-> NoArea],
     [lat |-> 5, lon |-> -73, wid |-> "custom", area |-> NoArea],
     [lat |-> 5, lon |-> -73, wid |-> "basin2", area |-> 12],
     [lat |-> 6, lon |-> -75, wid |-> "basin3", area |-> NoArea],
     [lat |-> 3, lon |-> -82, wid |-> "custom", area |-> NoArea],
     [lat |-> 4, lon |-> 286, wid |-> "custom", area |-> NoArea]}

\* a coordinate outside the geographic range
Malformed(lat, lng) == lat < -90 \/ lat > 90 \/ lng < -180 \/ lng > 180

\* no drainage line lies within the search radius of the point
NoDrainage(lat, lng) == lat = 3 /\ lng = -82

DefaultOutlets == 0          \* the OUTLETS_CSV of config.py, not a temp file

NoPath == -1

NoFile == [exists |-> FALSE]

NoRow == [id |-> "", lat |-> 0, lng |-> 0]

\* the one row of the CSV: the area column only when area is given
CsvRow(a) ==
    IF a.area # NoArea
    THEN [id |-> a.wid, lat |-> a.lat, lng |-> a.lon, area |-> a.area]
    ELSE [id |-> a.wid, lat |-> a.lat, lng |-> a.lon]

\* tempfile.mkstemp: a path no other file has
FreshPath == Cardinality(DOMAIN csvFiles) + 1

\* lines 46-49: tmp_csv = mkstemp(...); DataFrame([row]).to_csv(tmp_csv)
MakeCsv(r) ==
    /\ dpc[r] = "csv"
    /\ dtmp' = [dtmp EXCEPT ![r] = FreshPath]
    /\ csvFiles' = Put(csvFiles, FreshPath, CsvRow(dargs[r]))
    /\ dpc' = [dpc EXCEPT ![r] = "set_outlets"]
    /\ UNCHANGED <<cfg, engine, outFiles, dargs, drun, dret, dgot>>
    /\ UNCHANGED dalone
    /\ UNCHANGED notDelin

\* line 52: cfg.OUTLETS_CSV = str(tmp_csv)
SetOutlets(r) ==
    /\ dpc[r] = "set_outlets"
    /\ cfg' = [cfg EXCEPT !.OUTLETS_CSV = dtmp[r]]
    /\ dpc' = [dpc EXCEPT ![r] = "set_map"]
    /\ UNCHANGED <<engine, csvFiles, outFiles, dargs, dtmp, drun, dret, dgot>>
    /\ UNCHANGED dalone
    /\ UNCHANGED notDelin

\* line 53: cfg.MAKE_MAP = False
SetMakeMap(r) ==
    /\ dpc[r] = "set_map"
    /\ cfg' = [cfg EXCEPT !.MAKE_MAP = FALSE]
    /\ dpc' = [dpc EXCEPT ![r] = "reload"]
    /\ UNCHANGED <<engine, csvFiles, outFiles, dargs, dtmp, drun, dret, dgot>>
    /\ UNCHANGED dalone
    /\ UNCHANGED notDelin

\* the module body of _engine: its globals are taken from the config
EngineModuleBody(c) == [OUTLETS_CSV |-> c.OUTLETS_CSV, MAKE_MAP |-> c.MAKE_MAP]

\* line 57: importlib.reload(_engine)
ReloadEngine(r) ==
    /\ dpc[r] = "reload"
    /\ engine' = EngineModuleBody(cfg)
    /\ dpc' = [dpc EXCEPT ![r] = "run"]
    /\ UNCHANGED <<cfg, csvFiles, outFiles, dargs, dtmp, drun, dret, dgot>>
    /\ UNCHANGED dalone
    /\ UNCHANGED notDelin

\* the dataset the engine traces for the outlet of a CSV row
Delineated(row) == [exists |-> TRUE, lat |-> row.lat, lng |-> row.lng]

\* line 60, _engine.delineate(): first the outlets CSV is read ...
EngineRead(r) ==
    /\ dpc[r] = "run"
    /\ drun' = [drun EXCEPT ![r] = engine.OUTLETS_CSV]
    /\ dpc' = [dpc EXCEPT ![r] = "trace"]
    /\ UNCHANGED <<cfg, engine, csvFiles, outFiles, dargs, dtmp, dret, dgot>>
    /\ UNCHANGED dalone
    /\ UNCHANGED notDelin

\* a dataset of zero features
EmptyDataset == [exists |-> TRUE, features |-> 0]

\* ... then the watershed of its row is written to OUTPUT_DIR/<id>.<ext>.
\* A malformed coordinate is rejected: the exception leaves delineate_point.
\* Where no drainage line is found the run ends without a watershed: it
\* writes either no dataset at all or one of zero features.
EngineWrite(r) ==
    /\ dpc[r] = "trace"
    /\ IF drun[r] \notin DOMAIN csvFiles
       THEN /\ UNCHANGED outFiles
            /\ dpc' = [dpc EXCEPT ![r] = "return"]
       ELSE LET row == csvFiles[drun[r]]
            IN  IF Malformed(row.lat, row.lng)
                THEN /\ UNCHANGED outFiles
                     /\ dpc' = [dpc EXCEPT ![r] = "raised"]
                ELSE IF NoDrainage(row.lat, row.lng)
                THEN /\ \/ UNCHANGED outFiles
                        \/ outFiles' = Put(outFiles, row.id, EmptyDataset)
                     /\ dpc' = [dpc EXCEPT ![r] = "return"]
                ELSE /\ outFiles' = Put(outFiles, row.id, Delineated(row))
                     /\ dpc' = [dpc EXCEPT ![r] = "return"]
    /\ UNCHANGED <<cfg, engine, csvFiles, dargs, dtmp, drun, dret, dgot>>
    /\ UNCHANGED dalone
    /\ UNCHANGED notDelin

\* line 63: return os.path.join(cfg.OUTPUT_DIR, f"{wid}.{cfg.OUTPUT_EXT}")
ReturnPath(r) ==
    /\ dpc[r] = "return"
    /\ dret' = [dret EXCEPT ![r] = dargs[r].wid]
    /\ dpc' = [dpc EXCEPT ![r] = "caller"]
    /\ UNCHANGED <<cfg, engine, csvFiles, outFiles, dargs, dtmp, drun, dgot>>
    /\ UNCHANGED dalone
    /\ UNCHANGED notDelin

\* the caller: Path(gpkg_path).exists(), then gpd.read_file(gpkg_path)
CallerRead(r) ==
    /\ dpc[r] = "caller"
    /\ dgot' = [dgot EXCEPT ![r] =
                   IF dret[r] \in DOMAIN outFiles THEN outFiles[dret[r]] ELSE NoFile]
    /\ dpc' = [dpc EXCEPT ![r] = "done"]
    /\ UNCHANGED <<cfg, engine, csvFiles, outFiles, dargs, dtmp, drun, dret>>
    /\ UNCHANGED dalone
    /\ UNCHANGED notDelin

\* the request has begun and neither returned to its caller's last statement
\* nor raised
InFlight(q) == dpc[q] \notin {"off", "idle", "done", "raised"}

\* a user presses the button: delineate_point(lat, lon, wid, area) is called
StartRequest(r) ==
    /\ dpc[r] = "idle"
    /\ dpc' = [dpc EXCEPT ![r] = "csv"]
    /\ dalone' = [dalone EXCEPT ![r] = \A q \in Reqs \ {r} : ~InFlight(q)]
    /\ UNCHANGED <<cfg, engine, csvFiles, outFiles, dargs, dtmp, drun, dret, dgot>>
    /\ UNCHANGED notDelin

DelinStart ==
    /\ cfg = [OUTLETS_CSV |-> DefaultOutlets, MAKE_MAP |-> TRUE]
    /\ engine = EngineModuleBody(cfg)
    /\ csvFiles = [x \in {} |-> NoRow]
    /\ outFiles = [x \in {} |-> NoFile]
    /\ dpc = [r \in Reqs |-> "idle"]
    /\ dargs \in [Reqs -> OutletArgs]
    /\ dtmp = [r \in Reqs |-> NoPath]
    /\ drun = [r \in Reqs |-> NoPath]
    /\ dret = [r \in Reqs |-> ""]
    /\ dgot = [r \in Reqs |-> NoFile]
    /\ dalone = [r \in Reqs |-> FALSE]

\* no request is made
DelinIdle ==
    /\ cfg = [OUTLETS_CSV |-> DefaultOutlets, MAKE_MAP |-> TRUE]
    /\ engine = EngineModuleBody(cfg)
    /\ csvFiles = [x \in {} |-> NoRow]
    /\ outFiles = [x \in {} |-> NoFile]
    /\ dpc = [r \in Reqs |-> "off"]
    /\ dargs = [r \in Reqs |-> CHOOSE a \in OutletArgs : TRUE]
    /\ dtmp = [r \in Reqs |-> NoPath]
    /\ drun = [r \in Reqs |-> NoPath]
    /\ dret = [r \in Reqs |-> ""]
    /\ dgot = [r \in Reqs |-> NoFile]
    /\ dalone = [r \in Reqs |-> FALSE]

DelinStep ==
    \E r \in Reqs :
        \/ StartRequest(r)
        \/ MakeCsv(r)
        \/ SetOutlets(r)
        \/ SetMakeMap(r)
        \/ ReloadEngine(r)
        \/ EngineRead(r)
        \/ EngineWrite(r)
        \/ ReturnPath(r)
        \/ CallerRead(r)

\* the request has patched the configuration and its engine run is not over
Patched(r) == dpc[r] \in {"set_map", "reload", "run", "trace"}

(***************************************************************************)
(* C2.  A request mutates no configuration shared between requests: while  *)
(* a request is in flight, the configured outlets CSV, the map flag and    *)
(* the engine's globals are not changed by a step of another request.      *)
(***************************************************************************)
C2_NoSharedConfigMutation ==
    [][\A r \in Reqs :
          (Patched(r) /\ dpc'[r] = dpc[r]) => (cfg' = cfg /\ engine' = engine)]_vars

(***************************************************************************)
(* C3.  Under every interleaving the engine run of a request reads the     *)
(* CSV that request wrote, and the path returned to it names a dataset     *)
(* delineated from its own point.                                          *)
(***************************************************************************)
Outlet(r) == <<dargs[r].lat, dargs[r].lon>>

DifferentOutlets == \A r \in Reqs : \A q \in Reqs \ {r} : Outlet(r) # Outlet(q)

\* the engine finds a watershed for the outlet of every request
AllTraceable ==
    \A r \in Reqs : /\ ~Malformed(dargs[r].lat, dargs[r].lon)
                    /\ ~NoDrainage(dargs[r].lat, dargs[r].lon)

C3_OwnOutput ==
    (DifferentOutlets /\ AllTraceable) =>
        \A r \in Reqs :
            dpc[r] = "done" =>
                /\ drun[r] = dtmp[r]
                /\ dgot[r] = [exists |-> TRUE, lat |-> dargs[r].lat,
                                               lng |-> dargs[r].lon]

(***************************************************************************)
(* _network_longest_path_km as one function, as compute calls it.          *)
(***************************************************************************)
_network_longest_path_km(layer) ==
    IF layer.none \/ layer.rows = <<>> THEN NaN
    ELSE LET rows == _explode_lines(layer.rows)
             segs == _node_streams(rows)
             g    == _build_graph(segs, TolOf(layer))
         IN  IF rows = <<>> \/ segs = <<>> \/ g.keys = <<>> THEN NaN
             ELSE Km(LongestFrom(g, _dijkstra(g, StartNode(g)).far_node), layer.den)

(***************************************************************************)
(* compute (morphometry.py).  The watershed layer is [crs, den, vertices,  *)
(* area, perim, blen]: the measures of its polygon in the units of its     *)
(* coordinates are area / den^2 (the area), perim / den (the boundary      *)
(* length of the simplified polygon) and blen / den (the extent along the  *)
(* principal axis); vertices counts the coordinates of its simplified      *)
(* exterior ring.  The elevation raster is [given, auto, readable, zmin,   *)
(* zmax]: the dem_path argument ("" for None), the path _autoselect_dem    *)
(* finds ("" for None), and what the clip of the raster yields.            *)
(***************************************************************************)
\* a target of 1.5 in the place of 1.03
MutTargetSinuosity == Frac(3, 2)

TARGET_SINUOSITY == Frac(103, 100)

PI == Frac(355, 113)

\* _ensure_gdf_crs: a missing CRS is set to WGS84, the coordinates are kept
EnsureCrs(layer) ==
    IF layer.crs = "none" THEN [layer EXCEPT !.crs = "geographic"] ELSE layer

\* to_crs(epsg=utm_epsg): every coordinate in degrees becomes metres
ToCrsUtm(layer) ==
    [layer EXCEPT !.crs = "projected", !.den = @ \div MetresPerDegree]

\* the truth value of a float: 0.0 is false, NaN is true
Truthy(x) == IsNaN(x) \/ x.num # 0

_area_km2(poly) == FDiv(Frac(poly.area, poly.den * poly.den), Whole(1000000))

_perimeter_km(poly) == FDiv(Frac(poly.perim, poly.den), Whole(1000))

\* the length of the boundary in place of the extent along the main axis
MutPcaLengthFromPerimeter(poly) ==
    IF poly.vertices < 3 THEN NaN
    ELSE FDiv(Frac(poly.perim, poly.den), Whole(1000))

_pca_length(poly) ==
    IF poly.vertices < 3 THEN NaN
    ELSE FDiv(Frac(poly.blen, poly.den), Whole(1000))

_compactness(perim_km, area_km2) ==
    FDiv(perim_km, FMul(Whole(2), FSqrt(FMul(PI, area_km2))))

_shape_factor(area_km2, length_km) ==
    IF Truthy(length_km) THEN FDiv(area_km2, FMul(length_km, length_km)) ELSE NaN

_classify_cuenca(area_km2) ==
    IF FLess(area_km2, Whole(25)) THEN Str("Microcuenca")
    ELSE IF FLess(area_km2, Whole(250)) THEN Str("Pequena")
    ELSE IF FLess(area_km2, Whole(500)) THEN Str("Intermedia-Pequena")
    ELSE IF FLess(area_km2, Whole(2500)) THEN Str("Intermedia-Grande")
    ELSE IF FLessEq(area_km2, Whole(5000)) THEN Str("Grande")
    ELSE Str("Muy Grande")

_classify_compactness(ci) ==
    IF FLessEq(Whole(1), ci) /\ FLess(ci, Frac(126, 100))
    THEN Str("Redonda a oval redonda")
    ELSE IF FLessEq(Frac(126, 100), ci) /\ FLess(ci, Frac(151, 100))
    THEN Str("Oval Redonda a Oval Oblonga")
    ELSE IF FLessEq(Frac(151, 100), ci) /\ FLessEq(ci, Frac(175, 100))
    THEN Str("Oval Oblonga a Rectangular Oblonga")
    ELSE Str("Rectangular Oblonga")

_classify_sinuosity(sin) ==
    IF FLess(sin, Frac(12, 10)) THEN Str("Rectilineo")
    ELSE IF FLess(sin, Frac(15, 10)) THEN Str("Transicional")
    ELSE IF FLess(sin, Frac(17, 10)) THEN Str("Regular")
    ELSE IF FLess(sin, Frac(21, 10)) THEN Str("Irregular")
    ELSE Str("Tortuoso")

_classify_densidad(den) ==
    IF FLess(den, Whole(1)) THEN Str("Baja")
    ELSE IF FLess(den, Whole(2)) THEN Str("Moderada")
    ELSE IF FLess(den, Whole(3)) THEN Str("Alta")
    ELSE Str("Muy Alta")

_classify_forma_cuenca(f) ==
    IF IsNaN(f) THEN NaN
    ELSE IF FLess(f, Frac(22, 100)) THEN Str("Muy Alargada")
    ELSE IF FLess(f, Frac(30, 100)) THEN Str("Alargada")
    ELSE IF FLess(f, Frac(37, 100)) THEN Str("Ligeramente Alargada")
    ELSE IF FLess(f, Frac(45, 100)) THEN Str("Ni alargada, ni achatada")
    ELSE IF FLess(f, Frac(60, 100)) THEN Str("Ligeramente Achatada")
    ELSE IF FLess(f, Frac(80, 100)) THEN Str("Achatada")
    ELSE IF FLess(f, Frac(120, 100)) THEN Str("Muy Achatada")
    ELSE Str("Redonda")

\* streams_gdf.geometry.length.sum(): a null geometry counts for nothing
RECURSIVE PartsLength(_)
PartsLength(parts) ==
    IF parts = <<>> THEN 0 ELSE Head(parts).len + PartsLength(Tail(parts))

RECURSIVE RowsLength(_)
RowsLength(rows) ==
    IF rows = <<>> THEN 0 ELSE PartsLength(Head(rows).parts) + RowsLength(Tail(rows))

TotalLength(layer) == Frac(RowsLength(layer.rows), layer.den)

\* dem_used = dem_path if dem_path else _autoselect_dem(...)
DemUsed(dem) == IF dem.given # "" THEN dem.given ELSE dem.auto

\* _extract_elevation_stats: (min, max, ptp), three NaN when the clip fails
\* or holds no valid sample
_extract_elevation_stats(dem) ==
    IF dem.readable
    THEN [cota_min |-> Whole(dem.zmin), cota_max |-> Whole(dem.zmax),
          delta_h |-> Whole(dem.zmax - dem.zmin)]
    ELSE [cota_min |-> NaN, cota_max |-> NaN, delta_h |-> NaN]

\* `cota_min = cota_max = delta_h = 0.0' in place of line 306
MutElevationsZero(dem) ==
    IF DemUsed(dem) # "" THEN _extract_elevation_stats(dem)
    ELSE [cota_min |-> Whole(0), cota_max |-> Whole(0), delta_h |-> Whole(0)]

Elevations(dem) ==
    IF DemUsed(dem) # "" THEN _extract_elevation_stats(dem)
    ELSE [cota_min |-> NaN, cota_max |-> NaN, delta_h |-> NaN]

\* `round(x, k) if not np.isnan(x) else np.nan'
RoundOrNaN(x, scale) == IF IsNaN(x) THEN NaN ELSE Round(x, scale)

PyNone == [pynone |-> TRUE]

NoStats == [cota_min |-> NaN, cota_max |-> NaN, delta_h |-> NaN]

\* np.degrees(np.arctan(ratio)), kept as the ratio it is the angle of
AtanDeg(ratio) == IF IsNaN(ratio) THEN NaN ELSE [atan_deg |-> ratio]

\* lines 315-371: the measures and the mapping returned, or the exception
\* that leaves compute
Measures(ws, st, el, dem) ==
    LET poly == ws
        area == _area_km2(poly)
        perim == _perimeter_km(poly)
        compacidad == _compactness(perim, area)
    IN  IF IsError(compacidad) THEN compacidad
        ELSE
        LET longitud_cuenca == _pca_length(poly)
            longitud_cp == IF ~st.none THEN _network_longest_path_km(st) ELSE NaN
            longitud_cp_l == IF ~IsNaN(longitud_cp)
                             THEN FDiv(longitud_cp, TARGET_SINUOSITY) ELSE NaN
            sinuosidad == IF ~IsNaN(longitud_cp_l)
                          THEN FDiv(longitud_cp, longitud_cp_l) ELSE NaN
            factor_forma == _shape_factor(area, longitud_cuenca)
            forma_cuenca == _classify_forma_cuenca(factor_forma)
            densidad_dren ==
                IF ~st.none /\ FLess(Whole(0), area)
                THEN FDiv(FDiv(TotalLength(st), Whole(1000)), area) ELSE NaN
            num_dren == IF ~st.none THEN Whole(Len(st.rows)) ELSE NaN
            has_slope == ~(IsNaN(el.delta_h) \/ IsNaN(longitud_cuenca))
            ratio == IF has_slope
                     THEN FDiv(el.delta_h, FMul(longitud_cuenca, Whole(1000)))
                     ELSE NaN
            avg_slope_pct == FMul(ratio, Whole(100))
            avg_slope_deg == AtanDeg(ratio)
            dem_used == DemUsed(dem)
            warning ==
                IF dem_used = "" THEN Str("Sin DEM valido: cotas = NaN.")
                ELSE IF IsNaN(el.cota_min) \/ IsNaN(el.cota_max)
                THEN Str("DEM encontrado pero no se pudieron extraer cotas")
                ELSE PyNone
        IN  [area_km2 |-> Round(area, 1000),
             area_ha |-> Round(FMul(area, Whole(100)), 100),
             perimetro_km |-> Round(perim, 1000),
             clasificacion_area |-> _classify_cuenca(area),
             indice_compacidad |-> Round(compacidad, 1000),
             tipo_cuenca |-> _classify_compactness(compacidad),
             longitud_cuenca_km |-> RoundOrNaN(longitud_cuenca, 1000),
             factor_forma |-> RoundOrNaN(factor_forma, 1000),
             forma_cuenca |-> forma_cuenca,
             longitud_cp_l_km |-> RoundOrNaN(longitud_cp_l, 1000),
             longitud_cp_km |-> RoundOrNaN(longitud_cp, 1000),
             factor_sinuosidad |-> RoundOrNaN(sinuosidad, 1000),
             clasificacion_sinuosidad |->
                 IF ~IsNaN(sinuosidad) THEN _classify_sinuosity(sinuosidad) ELSE NaN,
             longitud_total_cauces_km |->
                 IF ~st.none THEN Round(FDiv(TotalLength(st), Whole(1000)), 1000)
                 ELSE NaN,
             densidad_drenajes |-> RoundOrNaN(densidad_dren, 1000),
             clasificacion_densidad |->
                 IF ~IsNaN(densidad_dren) THEN _classify_densidad(densidad_dren)
                 ELSE NaN,
             cota_minima |-> RoundOrNaN(el.cota_min, 100),
             cota_maxima |-> RoundOrNaN(el.cota_max, 100),
             diferencia_altitudinal |-> RoundOrNaN(el.delta_h, 100),
             numero_drenajes |-> num_dren,
             pendiente_media_deg |-> avg_slope_deg,
             pendiente_media_pct |-> RoundOrNaN(avg_slope_pct, 1000),
             dem_usado |-> IF dem_used = "" THEN PyNone ELSE Str(dem_used),
             warning |-> warning]

\* lines 289-306: the CRS of the inputs, the raster, the elevations
ComputeEnsure ==
    /\ cpc = "call"
    /\ watershed_gdf' = EnsureCrs(watershed_gdf)
    /\ streams_gdf' = IF ~streams_gdf.none THEN EnsureCrs(streams_gdf) ELSE streams_gdf
    /\ stats' = Elevations(dem_file)
    /\ cpc' = "reproject"
    /\ UNCHANGED <<dem_file, morpho>>
    /\ UNCHANGED notComp

\* lines 309-313: the reprojection to UTM
ComputeReproject ==
    /\ cpc = "reproject"
    /\ IF watershed_gdf.crs = "geographic"
       THEN /\ watershed_gdf' = ToCrsUtm(watershed_gdf)
            /\ streams_gdf' = IF ~streams_gdf.none /\ streams_gdf.crs = "geographic"
                              THEN ToCrsUtm(streams_gdf) ELSE streams_gdf
       ELSE UNCHANGED <<watershed_gdf, streams_gdf>>
    /\ cpc' = "measure"
    /\ UNCHANGED <<dem_file, stats, morpho>>
    /\ UNCHANGED notComp

\* lines 315-371
ComputeMeasure ==
    /\ cpc = "measure"
    /\ morpho' = Measures(watershed_gdf, streams_gdf, stats, dem_file)
    /\ cpc' = "done"
    /\ UNCHANGED <<watershed_gdf, streams_gdf, dem_file, stats>>
    /\ UNCHANGED notComp

\* the polygons compute is called with: a square of 2 km, a strip of 4 km by
\* 1 km, a strip of 30 km by 1 km, a strip of 5 km by 0.8 km, a near-circle
\* of 4 km2 whose boundary simplifies to an inscribed octagon of 7 km (the
\* area is the one of the polygon, the perimeter the one of its
\* simplification), and a polygon without area
Shapes ==
    { [vertices |-> 5, area |-> 4000000, perim |-> 8000, blen |-> 2000],
      [vertices |-> 5, area |-> 4000000, perim |-> 10000, blen |-> 4000],
      [vertices |-> 5, area |-> 30000000, perim |-> 62000, blen |-> 30000],
      [vertices |-> 5, area |-> 4000000, perim |-> 11600, blen |-> 5000],
      [vertices |-> 9, area |-> 4000000, perim |-> 7000, blen |-> 2200],
      [vertices |-> 0, area |-> 0, perim |-> 0, blen |-> 0] }

CrsDen(crs) == IF crs = "projected" THEN 1 ELSE MetresPerDegree

CrsKinds == {"none", "geographic", "projected"}

Watersheds ==
    { [crs |-> c, den |-> CrsDen(c), vertices |-> sh.vertices, area |-> sh.area,
       perim |-> sh.perim, blen |-> sh.blen] : c \in CrsKinds, sh \in Shapes }

MaxRows == 2

ComputeFeatures ==
    { Geom(<<Reach(P0, P1)>>), Geom(<<Reach(P1, P3)>>), Geom(<<Reach(P0, P0near)>>),
      Geom(<<Line(P0, P0, 0)>>), NullGeom }

StreamInputs ==
    {NoLayer} \cup
    { StreamLayer(c, CrsDen(c), rows) :
        c \in CrsKinds, rows \in SeqsUpTo(ComputeFeatures, MaxRows) }

Rasters ==
    { [given |-> g, auto |-> a, readable |-> r, zmin |-> 100, zmax |-> 300] :
        g \in {"", "dem.tif"}, a \in {"", "srtm.tif"}, r \in BOOLEAN }

ComputeStart ==
    /\ watershed_gdf \in Watersheds
    /\ streams_gdf \in StreamInputs
    /\ dem_file \in Rasters
    /\ cpc = "call"
    /\ stats = NoStats
    /\ morpho = Pending

CompIdle ==
    /\ watershed_gdf = [crs |-> "projected", den |-> 1, vertices |-> 0, area |-> 0,
                        perim |-> 0, blen |-> 0]
    /\ streams_gdf = NoLayer
    /\ dem_file = [given |-> "", auto |-> "", readable |-> FALSE, zmin |-> 0, zmax |-> 0]
    /\ cpc = "off"
    /\ stats = NoStats
    /\ morpho = Pending

ComputeStep == ComputeEnsure \/ ComputeReproject \/ ComputeMeasure

(***************************************************************************)
(* The hypsometric table (hypsometric_curve.py).  Elevations, class limits *)
(* and areas are exact fractions; a table is the sequence of its rows, the *)
(* empty DataFrame the empty sequence.                                     *)
(***************************************************************************)
\* np.floor and np.ceil, as integers
Floor(x) == x.num \div x.den

Ceil(x) == -((-x.num) \div x.den)

\* elev[~np.isnan(elev)]
DropNaN(arr) == SelectSeq(arr, LAMBDA v : ~IsNaN(v))

RECURSIVE InsertSorted(_, _)
InsertSorted(sorted, v) ==
    IF sorted = <<>> THEN <<v>>
    ELSE IF FLess(v, Head(sorted)) THEN <<v>> \o sorted
    ELSE <<Head(sorted)>> \o InsertSorted(Tail(sorted), v)

\* np.sort
RECURSIVE Sorted(_)
Sorted(arr) ==
    IF arr = <<>> THEN <<>>
    ELSE InsertSorted(Sorted(SubSeq(arr, 1, Len(arr) - 1)), arr[Len(arr)])

\* np.unique: sorted, each value once
RECURSIVE Unique(_)
Unique(sorted) ==
    IF Len(sorted) <= 1 THEN sorted
    ELSE IF sorted[1] = sorted[2] THEN Unique(Tail(sorted))
    ELSE <<sorted[1]>> \o Unique(Tail(sorted))

\* np.linspace(a, b, n + 1)
Linspace(a, b, n) ==
    [i \in 1..(n + 1) |-> FAdd(a, FDiv(FMul(Whole(i - 1), FSub(b, a)), Whole(n)))]

\* np.quantile(arr, q), linear interpolation between the order statistics
Quantile(arr, q) ==
    LET sorted == Sorted(arr)
        h == FMul(q, Whole(Len(arr) - 1))
        lo == Floor(h)
        up == IF lo + 2 <= Len(arr) THEN lo + 2 ELSE Len(arr)
    IN  FAdd(sorted[lo + 1],
             FMul(FSub(h, Whole(lo)), FSub(sorted[up], sorted[lo + 1])))

\* the while loop with `current_low + 100' in place of `current_low + 99'
RECURSIVE MutArcgisLoopWide(_, _, _)
MutArcgisLoopWide(edges, current_low, zmax_i) ==
    IF current_low <= zmax_i
    THEN LET upper == IF current_low + 100 <= zmax_i THEN current_low + 100 ELSE zmax_i
         IN  MutArcgisLoopWide(Append(edges, upper), upper + 1, zmax_i)
    ELSE edges

\* the while loop of _arcgis_bins
RECURSIVE ArcgisLoop(_, _, _)
ArcgisLoop(edges, current_low, zmax_i) ==
    IF current_low <= zmax_i
    THEN LET upper == IF current_low + 99 <= zmax_i THEN current_low + 99 ELSE zmax_i
         IN  ArcgisLoop(Append(edges, upper), upper + 1, zmax_i)
    ELSE edges

_arcgis_bins(zmin, zmax) ==
    LET zmin_i == Floor(zmin)
        zmax_i == Ceil(zmax)
        first_upper == (zmin_i \div 100) * 100 + 99
        ints == IF first_upper >= zmax_i THEN <<zmin_i, zmax_i>>
                ELSE ArcgisLoop(<<zmin_i, first_upper>>, first_upper + 1, zmax_i)
    IN  [i \in DOMAIN ints |-> Whole(ints[i])]

\* every class open above, the last one too
MutHistogramOpenLast(arr, edges) ==
    [i \in 1..(Len(edges) - 1) |->
        Cardinality({k \in DOMAIN arr :
            FLessEq(edges[i], arr[k]) /\ FLess(arr[k], edges[i + 1])})]

\* np.histogram(arr, bins=edges): every class is closed below and open above,
\* the last one closed on both sides
Histogram(arr, edges) ==
    [i \in 1..(Len(edges) - 1) |->
        Cardinality({k \in DOMAIN arr :
            /\ FLessEq(edges[i], arr[k])
            /\ IF i = Len(edges) - 1 THEN FLessEq(arr[k], edges[i + 1])
               ELSE FLess(arr[k], edges[i + 1])})]

\* np.cumsum
RECURSIVE CumSum(_)
CumSum(xs) ==
    IF xs = <<>> THEN <<>>
    ELSE LET before == CumSum(SubSeq(xs, 1, Len(xs) - 1))
         IN  Append(before,
                    IF before = <<>> THEN xs[1]
                    ELSE FAdd(before[Len(before)], xs[Len(xs)]))

\* xs without the reversal
MutFlipKeeps(xs) == xs

\* xs[::-1]
Flip(xs) == [i \in DOMAIN xs |-> xs[Len(xs) + 1 - i]]

\* (xs / total) * 100
Percent(xs, total) == [i \in DOMAIN xs |-> FMul(FDiv(xs[i], total), Whole(100))]

\* the two cells set to 1.0, the cumulative fraction, in place of 100.0
MutPinFraction(rows) ==
    [[rows EXCEPT ![Len(rows)].cum_pct_abajo = Whole(1)]
        EXCEPT ![1].cum_pct_arriba = Whole(1)]

\* lines 389-391
Pin(rows) ==
    [[rows EXCEPT ![Len(rows)].cum_pct_abajo = Whole(100)]
        EXCEPT ![1].cum_pct_arriba = Whole(100)]

Edges(arr, n_cls, method) ==
    LET z_min_real == Sorted(arr)[1]
        z_max_real == Sorted(arr)[Len(arr)]
        qs == Linspace(Whole(0), Whole(1), n_cls)
        quantiles == Unique(Sorted([i \in DOMAIN qs |-> Quantile(arr, qs[i])]))
    IN  Sorted(IF method = "arcgis (100 m)" THEN _arcgis_bins(z_min_real, z_max_real)
               ELSE IF method = "cuantiles" /\ ~(Len(quantiles) - 1 < n_cls)
               THEN quantiles
               ELSE Linspace(z_min_real, z_max_real, n_cls))

_hypsometric_table(values, px_m2, n_cls, method) ==
    LET arr == DropNaN(values)
    IN  IF arr = <<>> THEN <<>>
        ELSE
        LET edges == Edges(arr, n_cls, method)
            counts == Histogram(arr, edges)
            area_m2 == [i \in DOMAIN counts |-> Whole(counts[i] * px_m2)]
            area_km2 == [i \in DOMAIN counts |-> FDiv(area_m2[i], Whole(1000000))]
            cum_down_km2 == CumSum(area_km2)
            total_km2 == IF area_km2 = <<>> THEN Whole(0)
                         ELSE cum_down_km2[Len(cum_down_km2)]
        IN  IF total_km2 = Whole(0) THEN <<>>
            ELSE
            LET cum_up_km2 == Flip(CumSum(Flip(area_km2)))
                cum_down_pct == Percent(cum_down_km2, total_km2)
                cum_up_pct == Percent(cum_up_km2, total_km2)
                pct_class == Percent(area_km2, total_km2)
            IN  Pin([i \in DOMAIN counts |->
                     [n_clase |-> i,
                      limite_inferior |-> edges[i],
                      limite_superior |-> edges[i + 1],
                      altura_media |-> FDiv(FAdd(edges[i], edges[i + 1]), Whole(2)),
                      area_m2 |-> area_m2[i],
                      area_km2 |-> area_km2[i],
                      cum_km2_abajo |-> cum_down_km2[i],
                      cum_km2_arriba |-> cum_up_km2[i],
                      cum_pct_abajo |-> cum_down_pct[i],
                      cum_pct_arriba |-> cum_up_pct[i],
                      pct_clase |-> pct_class[i]]])

\* np.mean
Mean(arr) == FDiv(CumSum(arr)[Len(arr)], Whole(Len(arr)))

\* z_mean / (z_max - z_min), the minimum not subtracted
MutIntegralFromZero(values) ==
    LET arr == DropNaN(values)
    IN  IF arr = <<>> THEN NaN
        ELSE LET z_min == Sorted(arr)[1]
                 z_max == Sorted(arr)[Len(arr)]
             IN  IF z_max = z_min THEN NaN
                 ELSE FDiv(Mean(arr), FSub(z_max, z_min))

_hypsometric_integral(values) ==
    LET arr == DropNaN(values)
    IN  IF arr = <<>> THEN NaN
        ELSE LET z_mean == Mean(arr)
                 z_min == Sorted(arr)[1]
                 z_max == Sorted(arr)[Len(arr)]
             IN  IF z_max = z_min THEN NaN
                 ELSE FDiv(FSub(z_mean, z_min), FSub(z_max, z_min))

(***************************************************************************)
(* render (hypsometric_curve.py): one run of the page.                     *)
(***************************************************************************)
Methods == {"arcgis (100 m)", "intervalos iguales", "cuantiles"}

Orientaciones == {"Area desde abajo", "Area desde arriba (ArcGIS)"}

FromTop(o) == o = "Area desde arriba (ArcGIS)"

\* the orders sort_values(..., ascending=False) may leave the rows in: the
\* lower limits descend, rows of equal lower limit come in any order
RECURSIVE DescOrders(_)
DescOrders(S) ==
    IF S = {} THEN {<<>>}
    ELSE LET top == {r \in S : \A q \in S :
                        FLessEq(q.limite_inferior, r.limite_inferior)}
         IN  UNION {{<<r>> \o t : t \in DescOrders(S \ {r})} : r \in top}

Column(rows, name) == [i \in DOMAIN rows |-> rows[i][name]]

\* lines 139-147 without the two assignments of NaN
MutTablaDescKeepsBottom(order) ==
    LET cum_top_km2 == CumSum(Column(order, "area_km2"))
        cum_top_pct == Percent(cum_top_km2, cum_top_km2[Len(cum_top_km2)])
    IN  [i \in DOMAIN order |->
            [order[i] EXCEPT !.cum_km2_arriba = cum_top_km2[i],
                             !.cum_pct_arriba = cum_top_pct[i]]]

\* lines 139-150: the table of the orientation from the top, for one order
\* of the rows
TablaDesc(order) ==
    LET cum_top_km2 == CumSum(Column(order, "area_km2"))
        total_km2 == cum_top_km2[Len(cum_top_km2)]
        cum_top_pct == Percent(cum_top_km2, total_km2)
    IN  [i \in DOMAIN order |->
            [order[i] EXCEPT !.cum_km2_arriba = cum_top_km2[i],
                             !.cum_pct_arriba = cum_top_pct[i],
                             !.cum_km2_abajo = NaN,
                             !.cum_pct_abajo = NaN]]

NotStored == [stored |-> FALSE, table |-> <<>>]

Stored(rows) == [stored |-> TRUE, table |-> rows]

\* lines 49-90: the watershed and the raster of the session
HypsSelectDem ==
    /\ hpc = "select"
    /\ hpc' = IF raster.found THEN "load" ELSE "stopped"
    /\ UNCHANGED <<raster, pixel_area_m2, esquema, num_clases, orientacion, elev,
                   tabla_base, x_vals, y_vals, hypsometric_table, hi>>
    /\ UNCHANGED notHyps

\* lines 108-111: _load_and_clip_dem keeps the valid samples
HypsLoad ==
    /\ hpc = "load"
    /\ elev' = DropNaN(raster.samples)
    /\ hpc' = IF elev' = <<>> THEN "stopped" ELSE "table"
    /\ UNCHANGED <<raster, pixel_area_m2, esquema, num_clases, orientacion,
                   tabla_base, x_vals, y_vals, hypsometric_table, hi>>
    /\ UNCHANGED notHyps

\* lines 120-131
HypsTable ==
    /\ hpc = "table"
    /\ tabla_base' = _hypsometric_table(elev, pixel_area_m2, num_clases, esquema)
    /\ hpc' = IF tabla_base' = <<>> THEN "stopped" ELSE "orient"
    /\ UNCHANGED <<raster, pixel_area_m2, esquema, num_clases, orientacion, elev,
                   x_vals, y_vals, hypsometric_table, hi>>
    /\ UNCHANGED notHyps

\* lines 136-177 and 197
HypsOrient ==
    /\ hpc = "orient"
    /\ IF FromTop(orientacion)
       THEN \E order \in DescOrders(Range(tabla_base)) :
               LET tabla_desc == TablaDesc(order)
               IN  /\ x_vals' = Column(tabla_desc, "cum_pct_arriba")
                   /\ y_vals' = Column(tabla_desc, "altura_media")
                   /\ hypsometric_table' = Stored(tabla_desc)
       ELSE /\ x_vals' = Column(tabla_base, "cum_pct_abajo")
            /\ y_vals' = Column(tabla_base, "altura_media")
            /\ hypsometric_table' = Stored(tabla_base)
    /\ hi' = _hypsometric_integral(elev)
    /\ hpc' = "done"
    /\ UNCHANGED <<raster, pixel_area_m2, esquema, num_clases, orientacion, elev,
                   tabla_base>>
    /\ UNCHANGED notHyps

MinClases == 5

MaxClases == 5

MaxPixels == 3

ElevSamples == {NaN, Frac(-5, 2), Whole(199), Frac(841, 2)}

PixelAreas == {900, 1000000}

HypsStart ==
    /\ raster \in {[found |-> FALSE, samples |-> <<>>]} \cup
                  {[found |-> TRUE, samples |-> px] :
                      px \in SeqsUpTo(ElevSamples, MaxPixels)}
    /\ pixel_area_m2 \in PixelAreas
    /\ esquema \in Methods
    /\ num_clases \in MinClases..MaxClases
    /\ orientacion \in Orientaciones
    /\ hpc = "select"
    /\ elev = <<>>
    /\ tabla_base = <<>>
    /\ x_vals = <<>>
    /\ y_vals = <<>>
    /\ hypsometric_table = NotStored
    /\ hi = Pending

HypsIdle ==
    /\ raster = [found |-> FALSE, samples |-> <<>>]
    /\ pixel_area_m2 = 900
    /\ esquema = "arcgis (100 m)"
    /\ num_clases = 12
    /\ orientacion = "Area desde abajo"
    /\ hpc = "off"
    /\ elev = <<>>
    /\ tabla_base = <<>>
    /\ x_vals = <<>>
    /\ y_vals = <<>>
    /\ hypsometric_table = NotStored
    /\ hi = Pending

HypsStep == HypsSelectDem \/ HypsLoad \/ HypsTable \/ HypsOrient

(***************************************************************************)
(* fast_dissolve.py.  The plane is a grid of unit cells.  A Polygon is     *)
(* [type, exterior, interiors]: the cells its exterior ring encloses and   *)
(* the sequence of its interior rings; an interior ring is [cells, area,   *)
(* sliver]: the cells it encloses and its area, or, for a ring narrower    *)
(* than the repair distance, no cell, a small positive area and a number   *)
(* that tells it from the other rings.                                     *)
(***************************************************************************)
Ring(cells) == [cells |-> cells, area |-> Whole(Cardinality(cells)), sliver |-> 0]

Sliver(k) == [cells |-> {}, area |-> Frac(1, 1000000), sliver |-> k]

Polygon(exterior, holes) ==
    [type |-> "Polygon", exterior |-> exterior, interiors |-> holes]

EmptyPolygon == Polygon({}, <<>>)

MultiPolygon(polys) == [type |-> "MultiPolygon", geoms |-> polys]

\* None, and a geometry that is neither a Polygon nor a MultiPolygon
NoGeometry == [type |-> "None"]

LineGeometry == [type |-> "LineString"]

\* `p.is_empty'
IsEmptyGeom(g) ==
    \/ g.type = "Polygon" /\ g.exterior = {}
    \/ g.type = "MultiPolygon" /\ \A i \in DOMAIN g.geoms : g.geoms[i].exterior = {}

\* lines 41-46 with `>=' in place of `>'
MutFilterHolesKeepsEqual(polygon, a_max) ==
    IF a_max = Whole(0) THEN Polygon(polygon.exterior, <<>>)
    ELSE Polygon(polygon.exterior,
                 SelectSeq(polygon.interiors, LAMBDA hole : FLessEq(a_max, hole.area)))

\* lines 41-46
filter_holes(polygon, a_max) ==
    IF a_max = Whole(0) THEN Polygon(polygon.exterior, <<>>)
    ELSE Polygon(polygon.exterior,
                 SelectSeq(polygon.interiors, LAMBDA hole : FLess(a_max, hole.area)))

\* lines 48-55
close_holes(poly, a_max) ==
    IF poly.type = "Polygon" THEN filter_holes(poly, a_max)
    ELSE IF poly.type = "MultiPolygon"
    THEN MultiPolygon([i \in DOMAIN poly.geoms |-> filter_holes(poly.geoms[i], a_max)])
    ELSE poly

\* lines 71-73: the geometries of the layer, each with its holes closed
fill_geopandas(gdf, a_max) ==
    [i \in DOMAIN gdf |->
        IF gdf[i].type # "None" /\ ~IsEmptyGeom(gdf[i]) THEN close_holes(gdf[i], a_max)
        ELSE gdf[i]]

\* poly.buffer(dist).buffer(-dist) of one polygon: what is narrower than
\* twice the distance is closed, the rest is kept
BufferOutIn(polygon) ==
    Polygon(polygon.exterior, SelectSeq(polygon.interiors, LAMBDA hole : hole.sliver = 0))

\* lines 25-33; None has no method buffer
buffer(poly) ==
    IF poly.type = "None" THEN Raised("AttributeError")
    ELSE IF poly.type = "Polygon" THEN BufferOutIn(poly)
    ELSE IF poly.type = "MultiPolygon"
    THEN MultiPolygon([i \in DOMAIN poly.geoms |-> BufferOutIn(poly.geoms[i])])
    ELSE EmptyPolygon

\* cells that share a side
Adjacent(c, d) == Abs(c[1] - d[1]) + Abs(c[2] - d[2]) = 1

RECURSIVE Grow(_, _)
Grow(seen, S) ==
    LET more == {d \in S \ seen : \E c \in seen : Adjacent(c, d)}
    IN  IF more = {} THEN seen ELSE Grow(seen \cup more, S)

\* the connected parts of a set of cells
Parts(S) == {Grow({c}, S) : c \in S}

GridMax == 2

\* the cells of the layers, and the same with a margin of one cell around
Universe == {<<x, y>> : x \in -1..(GridMax + 1), y \in -1..(GridMax + 1)}

Outside(C) == Grow({<<-1, -1>>}, Universe \ C)

\* the gaps a connected set of cells encloses
Enclosed(C) == Parts(Universe \ C) \ {Outside(C)}

\* the cells a polygon covers
Region(polygon) ==
    polygon.exterior \ UNION {polygon.interiors[i].cells : i \in DOMAIN polygon.interiors}

CellKey(c) == (c[2] + 1) * (GridMax + 3) + c[1] + 1

LeastCell(S) == CHOOSE c \in S : \A d \in S : CellKey(c) <= CellKey(d)

\* a set of disjoint sets of cells as a sequence, by least cell
RECURSIVE InOrder(_)
InOrder(SS) ==
    IF SS = {} THEN <<>>
    ELSE LET first == CHOOSE S \in SS :
                         \A T \in SS : CellKey(LeastCell(S)) <= CellKey(LeastCell(T))
         IN  <<first>> \o InOrder(SS \ {first})

\* the interior rings narrower than the repair distance of the rows that lie
\* in a part
RECURSIVE SliversIn(_, _)
SliversIn(rows, C) ==
    IF rows = <<>> THEN <<>>
    ELSE (IF Region(Head(rows)) \subseteq C /\ Region(Head(rows)) # {}
          THEN SelectSeq(Head(rows).interiors, LAMBDA hole : hole.sliver # 0)
          ELSE <<>>) \o SliversIn(Tail(rows), C)

\* unary_union of the rows: one polygon for every connected part, with the
\* gaps it encloses as interior rings
UnaryUnion(rows) ==
    LET covered == UNION {Region(rows[i]) : i \in DOMAIN rows}
        comps == InOrder(Parts(covered))
        polys == [i \in DOMAIN comps |->
                    LET holes == InOrder(Enclosed(comps[i]))
                    IN  Polygon(comps[i] \cup UNION Enclosed(comps[i]),
                                [j \in DOMAIN holes |-> Ring(holes[j])]
                                    \o SliversIn(rows, comps[i]))]
    IN  IF Len(polys) = 1 THEN polys[1] ELSE MultiPolygon(polys)

\* df.total_bounds: [left, bottom, right, top], NaN for a layer without rows
TotalBounds(rows) ==
    LET covered == UNION {rows[i].exterior : i \in DOMAIN rows}
    IN  IF covered = {} THEN NaN
        ELSE [left |-> SetMin({c[1] : c \in covered}),
              bottom |-> SetMin({c[2] : c \in covered}),
              right |-> SetMax({c[1] : c \in covered}) + 1,
              top |-> SetMax({c[2] : c \in covered}) + 1]

\* lines 89-100: the rectangle one unit around the bounds
RectAround(bounds) ==
    IF IsNaN(bounds) THEN NaN
    ELSE [cells |-> {<<x, y>> : x \in (bounds.left - 1)..bounds.right,
                                y \in (bounds.bottom - 1)..bounds.top}]

\* gpd.clip(rect, df): no row when the bounds do not overlap (a comparison
\* with NaN is false), else the rectangle cut to the union of the rows
Clip(rectangle, rows) ==
    IF IsNaN(rectangle) \/ IsNaN(TotalBounds(rows)) THEN <<>>
    ELSE LET cut == UnaryUnion(rows)
         IN  IF IsEmptyGeom(cut) THEN <<>> ELSE <<cut>>

\* geometry.apply(f): the first exception leaves the call
RECURSIVE Apply1(_, _, _)
Apply1(rows, i, done) ==
    IF i > Len(rows) THEN [rows |-> done]
    ELSE LET r == buffer(rows[i])
         IN  IF IsError(r) THEN r ELSE Apply1(rows, i + 1, Append(done, r))

(***************************************************************************)
(* The calls of fast_dissolve.py.                                          *)
(***************************************************************************)
NoRect == [unset |-> TRUE]

\* close_holes(poly, area_max), lines 36-55
CloseHolesCall ==
    /\ fop = "close_holes" /\ fpc = "call"
    /\ fout' = close_holes(geom_in, area_max)
    /\ fpc' = "done"
    /\ UNCHANGED <<fop, geom_in, area_max, df_in, rect, clipped>>
    /\ UNCHANGED notDiss

\* fill_geopandas(gdf, area_max), lines 71-73
FillCall ==
    /\ fop = "fill_geopandas" /\ fpc = "call"
    /\ fout' = [rows |-> fill_geopandas(df_in, area_max)]
    /\ fpc' = "done"
    /\ UNCHANGED <<fop, geom_in, area_max, df_in, rect, clipped>>
    /\ UNCHANGED notDiss

\* buffer(poly), lines 25-33
BufferCall ==
    /\ fop = "buffer" /\ fpc = "call"
    /\ fout' = buffer(geom_in)
    /\ fpc' = "done"
    /\ UNCHANGED <<fop, geom_in, area_max, df_in, rect, clipped>>
    /\ UNCHANGED notDiss

\* dissolve_geopandas, lines 89-100.  On a layer without rows the bounds
\* are NaN and line 99 builds a ring of NaN coordinates, whose first and
\* last point do not compare equal: the constructor raises or returns the
\* ring, by the build of the geometry library.
DissolveRect ==
    /\ fop = "dissolve_geopandas" /\ fpc = "call"
    /\ \/ /\ rect' = RectAround(TotalBounds(df_in))
          /\ fpc' = "clip"
          /\ UNCHANGED fout
       \/ /\ IsNaN(TotalBounds(df_in))
          /\ fout' = Raised("GEOSException")
          /\ fpc' = "done"
          /\ UNCHANGED rect
    /\ UNCHANGED <<fop, geom_in, area_max, df_in, clipped>>
    /\ UNCHANGED notDiss

\* line 101
DissolveClip ==
    /\ fpc = "clip"
    /\ clipped' = Clip(rect, df_in)
    /\ fpc' = "repair"
    /\ UNCHANGED <<fop, geom_in, area_max, df_in, rect, fout>>
    /\ UNCHANGED notDiss

\* lines 105-107
DissolveRepair ==
    /\ fpc = "repair"
    /\ fout' = Apply1(clipped, 1, <<>>)
    /\ fpc' = "done"
    /\ UNCHANGED <<fop, geom_in, area_max, df_in, rect, clipped>>
    /\ UNCHANGED notDiss

MaxHoles == 2

MaxMembers == 2

MaxFragments == 3

\* the exterior of the polygons close_holes is called with
Wide == {<<x, y>> : x \in 0..4, y \in 0..2}

HoleChoices ==
    { Ring({<<1, 1>>}), Ring({<<3, 1>>}), Ring({<<1, 1>>, <<2, 1>>}),
      Ring({<<1, 1>>, <<2, 1>>, <<3, 1>>}), Sliver(1) }

\* rings that neither overlap nor share a side
Apart(h, k) ==
    /\ h # k
    /\ h.cells \cap k.cells = {}
    /\ \A c \in h.cells, d \in k.cells : ~Adjacent(c, d)

HoleLists ==
    {hs \in SeqsUpTo(HoleChoices, MaxHoles) :
        \A i, j \in DOMAIN hs : i # j => Apart(hs[i], hs[j])}

HoledPolygons == {Polygon(Wide, hs) : hs \in HoleLists} \cup {EmptyPolygon}

MemberPolygons ==
    { Polygon(Wide, <<Ring({<<1, 1>>}), Ring({<<3, 1>>})>>),
      Polygon(Wide, <<Sliver(1), Ring({<<1, 1>>, <<2, 1>>})>>),
      Polygon({<<6, 0>>}, <<>>) }

Geometries ==
    HoledPolygons \cup {NoGeometry, LineGeometry}
        \cup {MultiPolygon(ps) : ps \in SeqsUpTo(MemberPolygons, MaxMembers) \ {<<>>}}

Thresholds == {Whole(0), Frac(1, 2), Whole(1), Whole(2)}

FillGeoms ==
    { NoGeometry, EmptyPolygon, Polygon(Wide, <<Ring({<<1, 1>>})>>),
      Polygon(Wide, <<Sliver(1), Ring({<<1, 1>>, <<2, 1>>})>>) }

\* the basin fragments dissolve_geopandas is called with
Fragments ==
    { Polygon({<<0, 0>>, <<0, 1>>, <<0, 2>>, <<1, 2>>, <<2, 2>>}, <<>>),
      Polygon({<<1, 0>>, <<2, 0>>, <<2, 1>>}, <<>>),
      Polygon({<<1, 1>>}, <<>>),
      Polygon({<<2, 0>>}, <<>>),
      Polygon({<<x, y>> : x \in 0..2, y \in 0..2}, <<Ring({<<1, 1>>})>>),
      Polygon({<<0, 0>>, <<1, 0>>}, <<Sliver(1)>>) }

DissStart ==
    /\ fop \in {"close_holes", "fill_geopandas", "buffer", "dissolve_geopandas"}
    /\ geom_in \in (IF fop \in {"close_holes", "buffer"} THEN Geometries
                    ELSE {NoGeometry})
    /\ area_max \in (IF fop \in {"close_holes", "fill_geopandas"} THEN Thresholds
                     ELSE {Whole(0)})
    /\ df_in \in (IF fop = "fill_geopandas" THEN SeqsUpTo(FillGeoms, MaxFragments)
                  ELSE IF fop = "dissolve_geopandas"
                  THEN SeqsUpTo(Fragments, MaxFragments)
                  ELSE {<<>>})
    /\ fpc = "call"
    /\ rect = NoRect
    /\ clipped = <<>>
    /\ fout = Pending

DissIdle ==
    /\ fop = "none"
    /\ geom_in = NoGeometry
    /\ area_max = Whole(0)
    /\ df_in = <<>>
    /\ fpc = "off"
    /\ rect = NoRect
    /\ clipped = <<>>
    /\ fout = Pending

DissStep ==
    \/ CloseHolesCall
    \/ FillCall
    \/ BufferCall
    \/ DissolveRect
    \/ DissolveClip
    \/ DissolveRepair

(***************************************************************************)
(* Automatic selection of the elevation raster: _autoselect_dem of the     *)
(* morphometry and _autoselect_dem_debug of the hypsometric curve.  A file *)
(* name is the sequence of its characters, so that lower-casing, the       *)
(* suffix test, the token test and the sorted order are computed.          *)
(***************************************************************************)
Ascii == <<".", "/", "D", "F", "I", "T", "_", "a", "b", "c", "d", "e", "f", "h", "i", "l", "m", "n", "o", "r", "s", "t">>

Code(c) == CHOOSE i \in 1..Len(Ascii) : Ascii[i] = c

LowerChar(c) ==
    CASE c = "D" -> "d"
      [] c = "F" -> "f"
      [] c = "I" -> "i"
      [] c = "T" -> "t"
      [] OTHER -> c

Lower(name) == [i \in 1..Len(name) |-> LowerChar(name[i])]

Contains(name, tok) ==
    \E i \in 1..(Len(name) - Len(tok) + 1) : SubSeq(name, i, i + Len(tok) - 1) = tok

EndsWith(name, suf) ==
    /\ Len(name) >= Len(suf)
    /\ SubSeq(name, Len(name) - Len(suf) + 1, Len(name)) = suf

RECURSIVE PathLess(_, _)
PathLess(a, b) ==
    IF a = <<>> THEN b # <<>>
    ELSE IF b = <<>> THEN FALSE
    ELSE IF Code(Head(a)) < Code(Head(b)) THEN TRUE
    ELSE IF Code(Head(a)) > Code(Head(b)) THEN FALSE
    ELSE PathLess(Tail(a), Tail(b))

RECURSIVE InsertPath(_, _)
InsertPath(q, s) ==
    IF s = <<>> THEN <<q>>
    ELSE IF PathLess(Head(s), q) THEN <<Head(s)>> \o InsertPath(q, Tail(s))
    ELSE <<q>> \o s

RECURSIVE SortedPaths(_)
SortedPaths(s) == IF s = <<>> THEN <<>> ELSE InsertPath(Head(s), SortedPaths(Tail(s)))

DirRasterDem == <<"d", "a", "t", "a", "/", "r", "a", "s", "t", "e", "r", "/", "d", "e", "m">>

DirDem == <<"d", "a", "t", "a", "/", "d", "e", "m">>

DirRaster == <<"d", "a", "t", "a", "/", "r", "a", "s", "t", "e", "r">>

DirFlt == <<"d", "a", "t", "a", "/", "r", "a", "s", "t", "e", "r", "/", "d", "e", "m", "_", "f", "l", "t", "_", "n", "0", "0", "w", "0", "9", "0">>

DirAccum == <<"d", "a", "t", "a", "/", "r", "a", "s", "t", "e", "r", "/", "a", "c", "c", "u", "m", "_", "b", "a", "s", "i", "n", "s">>

DEM_FOLDERS_DEFAULT == <<DirRasterDem, DirRaster, DirDem>>

DEM_SEARCH_FOLDERS == <<DirRasterDem, DirFlt, DirAccum, DirRaster>>

MorphBad == <<<<"a", "c", "c", "u", "m">>, <<"f", "l", "o", "w">>, <<"d", "i", "r">>, <<"h", "a", "n", "d">>, <<"s", "l", "o", "p", "e">>, <<"a", "c", "c">>, <<"f", "a", "c">>>>

EXCLUDE_TOKENS == <<<<"a", "c", "c", "u", "m">>, <<"f", "l", "o", "w", "d", "i", "r">>, <<"f", "l", "o", "w", "_", "d", "i", "r">>, <<"h", "a", "n", "d">>, <<"s", "l", "o", "p", "e">>, <<"d", "i", "r">>, <<"f", "a", "c">>>>

\* the files that may be on disk: the directory, the name, and for a .flt
\* file whether its .hdr lies next to it
RasterFiles == <<
    [dir |-> DirRasterDem, name |-> <<"a", "c", "c", ".", "t", "i", "f">>, hdr |-> FALSE],
    [dir |-> DirRasterDem, name |-> <<"d", "e", "m", ".", "t", "i", "f">>, hdr |-> FALSE],
    [dir |-> DirRasterDem, name |-> <<"D", "i", "r", ".", "T", "I", "F">>, hdr |-> FALSE],
    [dir |-> DirRasterDem, name |-> <<"h", "a", "n", "d", ".", "f", "l", "t">>, hdr |-> TRUE],
    [dir |-> DirRasterDem, name |-> <<"s", "r", "t", "m", ".", "f", "l", "t">>, hdr |-> TRUE],
    [dir |-> DirRasterDem, name |-> <<"b", "a", "r", "e", ".", "f", "l", "t">>, hdr |-> FALSE],
    [dir |-> DirDem, name |-> <<"d", "e", "m", ".", "t", "i", "f">>, hdr |-> FALSE] >>

PathOf(f) == f.dir \o <<"/">> \o f.name

\* os.walk and Path.rglob descend: a file is found from a folder when its
\* directory is the folder or lies below it
Below(dir, folder) ==
    \/ dir = folder
    \/ Len(dir) > Len(folder) /\ SubSeq(dir, 1, Len(folder) + 1) = folder \o <<"/">>

OnDisk(path) == CHOOSE f \in disk : PathOf(f) = path

Covers(path) == OnDisk(path).covers

_is_probably_dem(fname) == ~ \E i \in 1..Len(MorphBad) : Contains(Lower(fname), MorphBad[i])

MorphCandidate(f) ==
    \/ EndsWith(Lower(f.name), <<".", "t", "i", "f">>) /\ _is_probably_dem(f.name)
    \/ EndsWith(Lower(f.name), <<".", "f", "l", "t">>) /\ _is_probably_dem(f.name) /\ f.hdr

HypsCandidate(f) ==
    /\ EndsWith(Lower(f.name), <<".", "t", "i", "f">>) \/ EndsWith(Lower(f.name), <<".", "f", "l", "t">>)
    /\ ~ \E i \in 1..Len(EXCLUDE_TOKENS) : Contains(Lower(f.name), EXCLUDE_TOKENS[i])
    /\ ~ (EndsWith(Lower(f.name), <<".", "f", "l", "t">>) /\ ~ f.hdr)

RECURSIVE SeqOfSet(_)
SeqOfSet(S) == IF S = {} THEN <<>> ELSE LET x == CHOOSE y \in S : TRUE IN <<x>> \o SeqOfSet(S \ {x})

\* one folder after the other, each walked to the bottom: a file below two
\* of the folders is listed twice
RECURSIVE Listing(_, _)
Listing(folders, files) ==
    IF folders = <<>> THEN <<>>
    ELSE SeqOfSet({PathOf(f) : f \in {g \in files : Below(g.dir, Head(folders))}})
             \o Listing(Tail(folders), files)

_list_candidate_dems(folders) == Listing(folders, {f \in disk : HypsCandidate(f)})

SelStart ==
    /\ \E state \in [1..Len(RasterFiles) -> {"absent", "covers", "apart"}] :
          disk = {[dir |-> RasterFiles[i].dir, name |-> RasterFiles[i].name,
                   hdr |-> RasterFiles[i].hdr, covers |-> state[i] = "covers"] :
                     i \in {j \in 1..Len(RasterFiles) : state[j] # "absent"}}
    /\ spc = "morph"
    /\ mcand = <<>>
    /\ mret = Pending
    /\ hcand = <<>>
    /\ hret = Pending

SelIdle ==
    /\ disk = {}
    /\ spc = "off"
    /\ mcand = <<>>
    /\ mret = Pending
    /\ hcand = <<>>
    /\ hret = Pending

\* _autoselect_dem, up to the loop: the candidates of every folder, sorted
AutoselectList ==
    /\ spc = "morph"
    /\ mcand' = SortedPaths(Listing(DEM_FOLDERS_DEFAULT, {f \in disk : MorphCandidate(f)}))
    /\ spc' = "morph_loop"
    /\ UNCHANGED <<disk, mret, hcand, hret>>
    /\ UNCHANGED notSel

\* one turn of its loop: the raster that can be cut by the watershed is
\* returned, one that cannot raises and is passed over
AutoselectTry ==
    /\ spc = "morph_loop"
    /\ IF mcand = <<>>
         THEN mret' = PyNone /\ spc' = "hyps" /\ UNCHANGED mcand
         ELSE IF Covers(Head(mcand))
           THEN mret' = [path |-> Head(mcand)] /\ spc' = "hyps" /\ UNCHANGED mcand
           ELSE mcand' = Tail(mcand) /\ UNCHANGED <<mret, spc>>
    /\ UNCHANGED <<disk, hcand, hret>>
    /\ UNCHANGED notSel

\* _autoselect_dem_debug, up to the loop
DebugList ==
    /\ spc = "hyps"
    /\ LET candidates == _list_candidate_dems(DEM_SEARCH_FOLDERS) IN
         IF candidates = <<>>
           THEN hret' = PyNone /\ spc' = "done" /\ UNCHANGED hcand
           ELSE hcand' = SortedPaths(candidates) /\ spc' = "hyps_loop" /\ UNCHANGED hret
    /\ UNCHANGED <<disk, mcand, mret>>
    /\ UNCHANGED notSel

\* one turn of its loop: no intersection of the bounding box, or a cut that
\* raises, passes over the raster
DebugTry ==
    /\ spc = "hyps_loop"
    /\ IF hcand = <<>>
         THEN hret' = PyNone /\ spc' = "done" /\ UNCHANGED hcand
         ELSE IF Covers(Head(hcand))
           THEN hret' = [path |-> Head(hcand)] /\ spc' = "done" /\ UNCHANGED hcand
           ELSE hcand' = Tail(hcand) /\ UNCHANGED <<hret, spc>>
    /\ UNCHANGED <<disk, mcand, mret>>
    /\ UNCHANGED notSel

SelStep ==
    \/ AutoselectList
    \/ AutoselectTry
    \/ DebugList
    \/ DebugTry

(***************************************************************************)
(* The session: the Delimitar handler of main.py writes the entries, and   *)
(* render of delineate.py draws the map from them, in one run of the       *)
(* script.  An entry is known by the request that wrote it.                *)
(***************************************************************************)
MaxSessions == 2

OptionalLayers == {"streams", "streams_main", "streams_tribs", "pour_point", "snap_point", "streams_hr"}

SessionKeys == {"gpkg_path", "geojson", "morpho"} \cup OptionalLayers

\* what a request leaves behind: whether the GeoPackage exists, whether its
\* watershed layer can be read, the optional layers it holds, and whether
\* compute returns
NoOutput == [file |-> FALSE, watershed |-> FALSE, layers |-> {}, compute |-> FALSE]

Outputs ==
    {NoOutput}
      \cup {[file |-> TRUE, watershed |-> FALSE, layers |-> {}, compute |-> FALSE]}
      \cup [file : {TRUE}, watershed : {TRUE}, layers : SUBSET OptionalLayers, compute : BOOLEAN]

EmptySession == [k \in SessionKeys |-> 0]

\* the for loop over the six layers: an entry is written when the layer can
\* be read, and left as it is when reading raises
LoadLayers(s, out, n) == [k \in SessionKeys |-> IF k \in out.layers THEN n ELSE s[k]]

Handler(s, out, n) ==
    IF ~ out.file THEN s
    ELSE LET withPath == [s EXCEPT !["gpkg_path"] = n] IN
         IF ~ out.watershed THEN withPath
         ELSE LET loaded == LoadLayers([withPath EXCEPT !["geojson"] = n], out, n) IN
              IF out.compute THEN [loaded EXCEPT !["morpho"] = n] ELSE loaded

\* the layer the connectors are drawn to: the first of the three that is set
StreamsGdf(s) ==
    IF s["streams_hr"] # 0 THEN s["streams_hr"]
    ELSE IF s["streams"] # 0 THEN s["streams"]
    ELSE s["streams_main"]

NothingShown == [watershed |-> 0, streams |-> 0, connectors |-> 0, snap |-> 0]

Rendered(s, boxes) ==
    [watershed |-> IF boxes.watershed THEN s["geojson"] ELSE 0,
     streams |-> IF boxes.streams THEN s["streams"] ELSE 0,
     connectors |-> IF boxes.streams /\ s["streams"] # 0 THEN StreamsGdf(s) ELSE 0,
     snap |-> IF boxes.streams /\ s["streams"] # 0 THEN s["snap_point"] ELSE 0]

AllBoxes == [watershed |-> TRUE, streams |-> TRUE]

SessStart ==
    /\ session = EmptySession
    /\ nreq = 0
    /\ latest = NoOutput
    /\ show = AllBoxes
    /\ shown = NothingShown

SessIdle ==
    /\ session = EmptySession
    /\ nreq = -1
    /\ latest = NoOutput
    /\ show = AllBoxes
    /\ shown = NothingShown

\* a run of the script with the button pressed: the handler, then the map
Delimitar ==
    /\ nreq \in 0..(MaxSessions - 1)
    /\ \E out \in Outputs :
          /\ session' = Handler(session, out, nreq + 1)
          /\ latest' = out
          /\ shown' = Rendered(Handler(session, out, nreq + 1), show)
    /\ nreq' = nreq + 1
    /\ UNCHANGED show
    /\ UNCHANGED notSess

\* a run of the script after a check box was changed: the map alone
Rerun ==
    /\ nreq \in 0..MaxSessions
    /\ \E boxes \in [watershed : BOOLEAN, streams : BOOLEAN] :
          /\ boxes # show
          /\ show' = boxes
          /\ shown' = Rendered(session, boxes)
    /\ UNCHANGED <<session, nreq, latest>>
    /\ UNCHANGED notSess

SessStep ==
    \/ Delimitar
    \/ Rerun

(***************************************************************************)
(* _get_utm_epsg (morphometry.py): the UTM code for the centroid of the    *)
(* watershed.  Degrees are fractions; int() cuts towards zero.             *)
(***************************************************************************)
LonSpan == 183

PyInt(x) == IF x.num >= 0 THEN x.num \div x.den ELSE -((-x.num) \div x.den)

\* centroids by half degrees of longitude, some of them beyond the
\* antimeridian, at the poles, beside and on the equator
Longitudes == {Frac(k, 2) : k \in (-2 * LonSpan)..(2 * LonSpan)}

Latitudes == {Whole(-90), Frac(-1, 2), Whole(0), Frac(1, 2), Whole(90)}

UtmZone(lon) == PyInt(FDiv(FAdd(lon, Whole(180)), Whole(6))) + 1

_get_utm_epsg(lon, lat) ==
    (IF FLessEq(Whole(0), lat) THEN 32600 ELSE 32700) + UtmZone(lon)

UtmStart ==
    /\ centroid \in [lon : Longitudes, lat : Latitudes]
    /\ upc = "call"
    /\ utm_epsg = 0

UtmIdle ==
    /\ centroid = [lon |-> Whole(0), lat |-> Whole(0)]
    /\ upc = "off"
    /\ utm_epsg = 0

GetUtmEpsg ==
    /\ upc = "call"
    /\ utm_epsg' = _get_utm_epsg(centroid.lon, centroid.lat)
    /\ upc' = "done"
    /\ UNCHANGED centroid
    /\ UNCHANGED notUtm

UtmStep == GetUtmEpsg

(***************************************************************************)
(* The specifications: each runs one component from its inputs, the others *)
(* at rest.                                                                *)
(***************************************************************************)
DelinInit == DelinStart /\ NetIdle /\ CompIdle /\ HypsIdle /\ DissIdle /\ SelIdle /\ SessIdle /\ UtmIdle

DelinNext == DelinStep

SpecDelin == DelinInit /\ [][DelinNext]_vars

NetInit == NetStart /\ DelinIdle /\ CompIdle /\ HypsIdle /\ DissIdle /\ SelIdle /\ SessIdle /\ UtmIdle

NetNext == NetStep

SpecNet == NetInit /\ [][NetNext]_vars

CompInit == ComputeStart /\ NetIdle /\ DelinIdle /\ HypsIdle /\ DissIdle /\ SelIdle /\ SessIdle /\ UtmIdle

CompNext == ComputeStep

SpecCompute == CompInit /\ [][CompNext]_vars

HypsInit == HypsStart /\ NetIdle /\ DelinIdle /\ CompIdle /\ DissIdle /\ SelIdle /\ SessIdle /\ UtmIdle

HypsNext == HypsStep

SpecHyps == HypsInit /\ [][HypsNext]_vars

DissInit == DissStart /\ NetIdle /\ DelinIdle /\ CompIdle /\ HypsIdle /\ SelIdle /\ SessIdle /\ UtmIdle

DissNext == DissStep

SpecDissolve == DissInit /\ [][DissNext]_vars

SelInit == SelStart /\ NetIdle /\ DelinIdle /\ CompIdle /\ HypsIdle /\ DissIdle /\ SessIdle /\ UtmIdle

SelNext == SelStep

SpecSelect == SelInit /\ [][SelNext]_vars

SessInit == SessStart /\ NetIdle /\ DelinIdle /\ CompIdle /\ HypsIdle /\ DissIdle /\ SelIdle /\ UtmIdle

SessNext == SessStep

SpecSession == SessInit /\ [][SessNext]_vars

UtmInit ==
    /\ UtmStart /\ NetIdle /\ DelinIdle /\ CompIdle /\ HypsIdle
    /\ DissIdle /\ SelIdle /\ SessIdle

UtmNext == UtmStep

SpecUtm == UtmInit /\ [][UtmNext]_vars

(***************************************************************************)
(* Reference notions the stream-network claims are stated with: they are   *)
(* defined on the graph alone, by enumeration of its simple paths.         *)
(***************************************************************************)
GraphNodes(g) == Range(g.keys)

EdgeCount(g) == SumSeq([i \in 1..Len(g.keys) |-> Len(g.adj[g.keys[i]])]) \div 2

Neighbours(g, u) == {g.adj[u][i][1] : i \in 1..Len(g.adj[u])}

RECURSIVE ReachFrom(_, _)
ReachFrom(g, seen) ==
    LET more == seen \cup UNION {Neighbours(g, u) : u \in seen}
    IN  IF more = seen THEN seen ELSE ReachFrom(g, more)

Component(g, u) == ReachFrom(g, {u})

IsTree(g) ==
    /\ g.keys # <<>>
    /\ Component(g, g.keys[1]) = GraphNodes(g)
    /\ EdgeCount(g) = Cardinality(GraphNodes(g)) - 1
    /\ \A u \in GraphNodes(g) : \A i \in 1..Len(g.adj[u]) : g.adj[u][i][2] > 0

\* the total weights of the simple paths that start at u and avoid visited
RECURSIVE PathWeightsFrom(_, _, _)
PathWeightsFrom(g, u, visited) ==
    {0} \cup UNION {
        {g.adj[u][i][2] + rest :
            rest \in PathWeightsFrom(g, g.adj[u][i][1],
                                     visited \cup {g.adj[u][i][1]})} :
        i \in {j \in 1..Len(g.adj[u]) : g.adj[u][j][1] \notin visited}}

MaxSimplePath(g) ==
    SetMax(UNION {PathWeightsFrom(g, u, {u}) : u \in GraphNodes(g)})

\* the total weights of the simple paths from u to v
RECURSIVE PathWeightsTo(_, _, _, _)
PathWeightsTo(g, u, v, visited) ==
    IF u = v THEN {0}
    ELSE UNION {
        {g.adj[u][i][2] + rest :
            rest \in PathWeightsTo(g, g.adj[u][i][1], v,
                                   visited \cup {g.adj[u][i][1]})} :
        i \in {j \in 1..Len(g.adj[u]) : g.adj[u][j][1] \notin visited}}

\* the distance from u to a node v of its component
ShortestPath(g, u, v) == SetMin(PathWeightsTo(g, u, v, {u}))

\* the greatest distance from u inside its component
Eccentricity(g, u) ==
    SetMax({ShortestPath(g, u, v) : v \in Component(g, u)})

NetDone == npc = "done"

(***************************************************************************)
(* C1.  When the clustered graph is a tree (connected, acyclic, positive   *)
(* weights), _network_longest_path_km returns the greatest total weight    *)
(* of a simple path of the graph, divided by 1000, whatever the start      *)
(* node is.                                                                *)
(***************************************************************************)
C1_TreeLongestPathExact ==
    (NetDone /\ IsTree(graph)) => result = Frac(MaxSimplePath(graph), 1000)

\* a tree on four nodes whose start node is not an end of the longest path
C1_Witness ==
    /\ NetDone
    /\ IsTree(graph)
    /\ Cardinality(GraphNodes(graph)) >= 4
    /\ Eccentricity(graph, graph.keys[1]) < MaxSimplePath(graph)
    /\ result = Frac(MaxSimplePath(graph), 1000)

(***************************************************************************)
(* C7.  _network_longest_path_km returns NaN when the network is None or   *)
(* empty, holds only null, empty or zero-length geometries, or yields a    *)
(* graph without edges (both end points of every segment fall in one       *)
(* cluster).                                                               *)
(***************************************************************************)
OnlyDegenerate(layer) ==
    \A i \in 1..Len(layer.rows) :
        \A k \in 1..Len(layer.rows[i].parts) : layer.rows[i].parts[k].len = 0

AllInOneCluster(segs) ==
    LET mapping == _cluster_endpoints(Endpoints(segs), TolOf(streams)).mapping
    IN  \A i \in 1..Len(segs) : mapping[segs[i].a] = mapping[segs[i].b]

C7_NaNWithoutEdges ==
    (/\ NetDone
     /\ \/ streams.none
        \/ streams.rows = <<>>
        \/ OnlyDegenerate(streams)
        \/ AllInOneCluster(_node_streams(_explode_lines(streams.rows))))
    => result = NaN

\* a segment between two distinct points that cluster together
C7_Witness ==
    /\ NetDone
    /\ \E i \in 1..Len(segments) : segments[i].a # segments[i].b
    /\ AllInOneCluster(segments)
    /\ result = NaN

(***************************************************************************)
(* C8.  With two or more components the value returned is the double      *)
(* sweep inside the component of the start node (the first node put into  *)
(* the graph): the distance from a node A farthest from the start to the   *)
(* node farthest from A, all of them in that component.                    *)
(***************************************************************************)
C8_SweepInsideStartComponent ==
    (NetDone /\ graph.keys # <<>>) =>
        \E a \in Component(graph, graph.keys[1]) :
            /\ ShortestPath(graph, graph.keys[1], a)
                 = Eccentricity(graph, graph.keys[1])
            /\ result = Frac(Eccentricity(graph, a), 1000)

\* another component holds a longer path than the one returned
C8_Witness ==
    /\ NetDone
    /\ graph.keys # <<>>
    /\ \E u \in GraphNodes(graph) \ Component(graph, graph.keys[1]) :
           Eccentricity(graph, u) > Eccentricity(graph, graph.keys[1])
    /\ \E a \in Component(graph, graph.keys[1]) :
           result = Frac(Eccentricity(graph, a), 1000)
    /\ FLess(result, Frac(MaxSimplePath(graph), 1000))

(***************************************************************************)
(* compute: partial data, zero area, reprojection.                         *)
(***************************************************************************)
CompDone == cpc = "done"

Returned == CompDone /\ ~IsError(morpho)

Populated(v) == IsNum(v) \/ "str" \in DOMAIN v \/ "atan_deg" \in DOMAIN v

NoStreams == streams_gdf.none

EmptyStreams == ~streams_gdf.none /\ streams_gdf.rows = <<>>

NoRaster == DemUsed(dem_file) = "" \/ ~dem_file.readable

PositiveArea == watershed_gdf.area > 0

IndependentFields ==
    {morpho.area_km2, morpho.area_ha, morpho.perimetro_km, morpho.clasificacion_area,
     morpho.indice_compacidad, morpho.tipo_cuenca, morpho.longitud_cuenca_km,
     morpho.factor_forma, morpho.forma_cuenca}

ChannelFields ==
    {morpho.longitud_cp_km, morpho.longitud_cp_l_km, morpho.factor_sinuosidad,
     morpho.clasificacion_sinuosidad}

TotalFields ==
    {morpho.longitud_total_cauces_km, morpho.densidad_drenajes,
     morpho.clasificacion_densidad, morpho.numero_drenajes}

RasterFields ==
    {morpho.cota_minima, morpho.cota_maxima, morpho.diferencia_altitudinal,
     morpho.pendiente_media_deg, morpho.pendiente_media_pct}

C5_ZeroAreaReturnsMapping ==
    (CompDone /\ watershed_gdf.area = 0) =>
        /\ ~IsError(morpho)
        /\ IsNaN(morpho.indice_compacidad)
        /\ IsNaN(morpho.factor_forma)
        /\ IsNaN(morpho.densidad_drenajes)

\* a layer with its coordinates in metres
Metric(layer) == [layer EXCEPT !.crs = "projected", !.den = 1]

\* C6: whatever the CRS of the watershed and of the streams, every figure
\* compute reports (area, perimeter, basin length, channel length, total
\* stream length, drainage density) is the one computed from the coordinates
\* in metres of both layers, none is computed from degrees.
C6_MetricFigures ==
    Returned =>
        morpho = Measures(Metric(watershed_gdf),
                          IF streams_gdf.none THEN streams_gdf ELSE Metric(streams_gdf),
                          stats, dem_file)

(***************************************************************************)
(* The hypsometric table and its orientation.                              *)
(***************************************************************************)
HasTable == hpc \in {"orient", "done"}

\* C9: every non-empty table of _hypsometric_table, whichever of the three
\* schemes it is built with, has the cumulative percentage from the bottom
\* equal to 100 in its last row and the cumulative percentage from the top
\* equal to 100 in its first row.
C9_CumulativeEnds ==
    (HasTable /\ tabla_base # <<>>) =>
        /\ tabla_base[Len(tabla_base)].cum_pct_abajo = Whole(100)
        /\ tabla_base[1].cum_pct_arriba = Whole(100)

C9_Witness ==
    /\ HasTable
    /\ Len(tabla_base) > 1
    /\ tabla_base[1].area_km2 # Whole(0)
    /\ tabla_base[Len(tabla_base)].area_km2 # Whole(0)
    /\ tabla_base[1].cum_pct_abajo # Whole(100)
    /\ tabla_base[Len(tabla_base)].cum_pct_abajo = Whole(100)

HypsDone == hpc = "done"

AreaOfClass(rows) ==
    {<<rows[i].n_clase, rows[i].area_km2, rows[i].area_m2>> : i \in DOMAIN rows}

DistinctLimits(rows) ==
    \A i, j \in DOMAIN rows : i # j => rows[i].limite_inferior # rows[j].limite_inferior

\* C10 as stated: in both orientations every row of the table stored as
\* hypsometric_table has its cumulative value from the bottom and its
\* cumulative value from the top, and the classes have the areas of the
\* table of the analysis.
C10_Original ==
    HypsDone =>
        /\ hypsometric_table.stored
        /\ AreaOfClass(hypsometric_table.table) = AreaOfClass(tabla_base)
        /\ \A i \in DOMAIN hypsometric_table.table :
              LET row == hypsometric_table.table[i]
              IN  /\ IsNum(row.cum_km2_abajo) /\ IsNum(row.cum_pct_abajo)
                  /\ IsNum(row.cum_km2_arriba) /\ IsNum(row.cum_pct_arriba)

\* C10, amended: the table of the analysis (tabla_base) has both cumulative
\* series in every row whatever the orientation.  The table stored is that
\* table in the orientation from the bottom; in the orientation from the
\* top it has the same classes with the same areas, by descending lower
\* limit, NaN in both columns from the bottom and, when no two classes
\* share a lower limit, for each class the cumulative area from the top it
\* has in the table of the analysis.
C10_StoredTable ==
    HypsDone =>
        /\ \A i \in DOMAIN tabla_base :
              /\ IsNum(tabla_base[i].cum_km2_abajo) /\ IsNum(tabla_base[i].cum_pct_abajo)
              /\ IsNum(tabla_base[i].cum_km2_arriba) /\ IsNum(tabla_base[i].cum_pct_arriba)
        /\ hypsometric_table.stored
        /\ AreaOfClass(hypsometric_table.table) = AreaOfClass(tabla_base)
        /\ ~FromTop(orientacion) => hypsometric_table.table = tabla_base
        /\ FromTop(orientacion) =>
              LET t == hypsometric_table.table
              IN  /\ \A i \in DOMAIN t :
                        /\ IsNaN(t[i].cum_km2_abajo) /\ IsNaN(t[i].cum_pct_abajo)
                        /\ IsNum(t[i].cum_pct_arriba)
                        /\ DistinctLimits(tabla_base) =>
                              t[i].cum_km2_arriba = tabla_base[t[i].n_clase].cum_km2_arriba
                  /\ \A i \in 1..(Len(t) - 1) :
                        FLessEq(t[i + 1].limite_inferior, t[i].limite_inferior)

C10_Witness ==
    /\ HypsDone
    /\ FromTop(orientacion)
    /\ Len(hypsometric_table.table) > 1
    /\ IsNaN(hypsometric_table.table[1].cum_pct_abajo)
    /\ hypsometric_table.table[1].n_clase = Len(tabla_base)
    /\ hypsometric_table.table[1].area_km2 # Whole(0)
    /\ DistinctLimits(tabla_base)

(***************************************************************************)
(* The hypsometric integral.                                               *)
(***************************************************************************)
ValidSamples(values) == {values[k] : k \in {j \in DOMAIN values : ~IsNaN(values[j])}}

\* the least and the greatest of a set of elevations
Lowest(S) == CHOOSE z \in S : \A w \in S : FLessEq(z, w)

Highest(S) == CHOOSE z \in S : \A w \in S : FLessEq(w, z)

\* the sum of the valid samples of a sequence
RECURSIVE SumValid(_)
SumValid(values) ==
    IF values = <<>> THEN Whole(0)
    ELSE IF IsNaN(Head(values)) THEN SumValid(Tail(values))
    ELSE FAdd(Head(values), SumValid(Tail(values)))

CountValid(values) == Cardinality({j \in DOMAIN values : ~IsNaN(values[j])})

IntegralAsClaimed(values) ==
    LET S == ValidSamples(values)
        r == _hypsometric_integral(values)
    IN  /\ IsNaN(r) <=> (S = {} \/ Highest(S) = Lowest(S))
        /\ ~IsNaN(r) =>
              /\ FMul(r, FMul(Whole(CountValid(values)), FSub(Highest(S), Lowest(S))))
                     = FSub(SumValid(values), FMul(Whole(CountValid(values)), Lowest(S)))
              /\ FLessEq(Whole(0), r)
              /\ FLessEq(r, Whole(1))

\* C11: _hypsometric_integral is NaN exactly when there is no valid sample
\* or the maximum equals the minimum; otherwise it is (mean - min) /
\* (max - min), a value of [0, 1].  Taken on the raster as clipped (NaN
\* samples included) and on the samples render passes.
C11_Integral ==
    /\ IntegralAsClaimed(raster.samples)
    /\ hpc = "done" => (hi = _hypsometric_integral(elev) /\ IntegralAsClaimed(elev))

C11_Witness ==
    /\ hpc = "done"
    /\ IsNum(hi)
    /\ FLess(Whole(0), hi)
    /\ FLess(hi, Frac(1, 2))
    /\ Len(elev) > 2

(***************************************************************************)
(* fast_dissolve.py: closing holes, dissolving, repairing.                 *)
(***************************************************************************)
DissDone(op) == fop = op /\ fpc = "done"

\* what close_holes is said to make of one polygon
HolesClosed(before, after, a_max) ==
    LET large == {h \in Range(before.interiors) : FLess(a_max, h.area)}
    IN  /\ after.type = "Polygon"
        /\ after.exterior = before.exterior
        /\ \A j \in DOMAIN after.interiors : FLess(a_max, after.interiors[j].area)
        /\ a_max = Whole(0) => after.interiors = <<>>
        /\ FLess(Whole(0), a_max) =>
              /\ Range(after.interiors) = large
              /\ Len(after.interiors) = Cardinality(large)
              /\ \A i, j \in DOMAIN after.interiors :
                    i < j => \E k, l \in DOMAIN before.interiors :
                                /\ k < l
                                /\ before.interiors[k] = after.interiors[i]
                                /\ before.interiors[l] = after.interiors[j]

Covered(rows) == UNION {Region(rows[i]) : i \in DOMAIN rows}

\* C13: dissolve_geopandas of a non-empty collection of fragments returns
\* exactly one feature, a single polygon without interior rings.  Taken on
\* the collections whose fragments make one connected part.
C13_OnePolygonNoHoles ==
    (DissDone("dissolve_geopandas") /\ df_in # <<>>
        /\ Cardinality(Parts(Covered(df_in))) = 1) =>
        /\ ~IsError(fout)
        /\ Len(fout.rows) = 1
        /\ fout.rows[1].type = "Polygon"
        /\ fout.rows[1].interiors = <<>>

\* C14: dissolve_geopandas of no polygon returns the empty collection and of
\* one polygon P returns P, up to the repair (the rings narrower than the
\* repair distance), and raises nothing.
C14_IdentityOnZeroOrOne ==
    (DissDone("dissolve_geopandas") /\ Len(df_in) <= 1) =>
        /\ ~IsError(fout)
        /\ df_in = <<>> => fout.rows = <<>>
        /\ Len(df_in) = 1 =>
              /\ Len(fout.rows) = 1
              /\ fout.rows[1].type = "Polygon"
              /\ fout.rows[1].exterior = df_in[1].exterior
              /\ Range(fout.rows[1].interiors) =
                     {h \in Range(df_in[1].interiors) : h.sliver = 0}

\* C15: buffer, close_holes and fill_geopandas return a null or empty
\* geometry as it is and raise nothing.
C15_NullOrEmptyPassesThrough ==
    /\ (DissDone("buffer") /\ (geom_in.type = "None" \/ IsEmptyGeom(geom_in))) =>
           fout = geom_in
    /\ (DissDone("close_holes") /\ (geom_in.type = "None" \/ IsEmptyGeom(geom_in))) =>
           fout = geom_in
    /\ DissDone("fill_geopandas") =>
           \A i \in DOMAIN df_in :
               (df_in[i].type = "None" \/ IsEmptyGeom(df_in[i])) =>
                   fout.rows[i] = df_in[i]

(***************************************************************************)
(* compute: the average slope.                                             *)
(***************************************************************************)
SlopeAvailable ==
    ~IsNaN(morpho.pendiente_media_pct) /\ ~IsNaN(morpho.pendiente_media_deg)

SlopeMissing ==
    IsNaN(morpho.pendiente_media_pct) /\ IsNaN(morpho.pendiente_media_deg)

\* the main-channel length compute takes, in km, before rounding
MainChannelKm ==
    IF streams_gdf.none THEN NaN ELSE _network_longest_path_km(streams_gdf)

\* the slope fields for an elevation difference in m and a length in km
SlopeFields(delta_h, length_km) ==
    LET ratio == FDiv(delta_h, FMul(length_km, Whole(1000)))
    IN  /\ morpho.pendiente_media_pct = Round(FMul(ratio, Whole(100)), 1000)
        /\ morpho.pendiente_media_deg = AtanDeg(ratio)

CompactnessIndex ==
    _compactness(_perimeter_km(watershed_gdf), _area_km2(watershed_gdf))

\* the four classes, from the roundest to the most elongated
CompactnessRank(class) ==
    IF class = Str("Redonda a oval redonda") THEN 1
    ELSE IF class = Str("Oval Redonda a Oval Oblonga") THEN 2
    ELSE IF class = Str("Oval Oblonga a Rectangular Oblonga") THEN 3
    ELSE 4

\* the band of an index: below 1.26, from 1.26 to below 1.51, from 1.51 to
\* 1.75, above 1.75
CompactnessBand(ci) ==
    IF FLess(ci, Frac(126, 100)) THEN 1
    ELSE IF FLess(ci, Frac(151, 100)) THEN 2
    ELSE IF FLessEq(ci, Frac(175, 100)) THEN 3
    ELSE 4

\* C17: the class of the compactness index is a monotone banding: every
\* index below 1.26 is "Redonda a oval redonda", every index above 1.75 is
\* "Rectangular Oblonga", the indices in between are split at 1.51, and no
\* smaller index (here: the indices of the other polygons) has a more
\* elongated class.
C17_MonotoneBanding ==
    Returned =>
        /\ CompactnessRank(morpho.tipo_cuenca) = CompactnessBand(CompactnessIndex)
        /\ \A sh \in Shapes :
              LET other == _compactness(Frac(sh.perim, 1000), Frac(sh.area, 1000000))
              IN  (sh.area > 0 /\ FLess(other, CompactnessIndex)) =>
                      CompactnessRank(_classify_compactness(other))
                          <= CompactnessRank(morpho.tipo_cuenca)

(***************************************************************************)
(* delineate_point: a request without a watershed, a malformed outlet.     *)
(***************************************************************************)
\* the dataset the caller read holds a watershed
HasWatershed(dataset) == dataset.exists /\ "lat" \in DOMAIN dataset

\* the engine run of the request read the CSV of the request and found no
\* drainage line for its outlet
NoResultRequest(r) ==
    /\ NoDrainage(dargs[r].lat, dargs[r].lon)
    /\ drun[r] = dtmp[r]

\* the requests made so far ran one after the other
OneByOne == \A q \in Reqs : dpc[q] = "idle" \/ dalone[q]

\* C18: when the engine run of a request finds no watershed, the caller
\* receives an empty or no-result outcome: after any sequence of earlier
\* requests, what the caller reads from the returned path is never a dataset
\* containing a watershed.
C18_NoResultNeverAWatershed ==
    \A r \in Reqs :
        (OneByOne /\ dpc[r] = "done" /\ NoResultRequest(r)) =>
            ~HasWatershed(dgot[r])

\* C19: a request with a malformed outlet coordinate is rejected before the
\* trace: no temporary CSV is written for it, the shared configuration is
\* not set by it and no engine run is made for it.
C19_RejectedBeforeTrace ==
    \A r \in Reqs :
        Malformed(dargs[r].lat, dargs[r].lon) =>
            /\ dtmp[r] = NoPath
            /\ drun[r] = NoPath
            /\ dpc[r] \notin {"set_outlets", "set_map", "reload", "run", "trace"}

(***************************************************************************)
(* _cluster_endpoints: end points within the tolerance of each other.      *)
(***************************************************************************)
\* the planar distance of two end points is at most the tolerance
Near(p, q, tol) ==
    (p[1] - q[1]) * (p[1] - q[1]) + (p[2] - q[2]) * (p[2] - q[2]) <= tol * tol

\* the end points joined to those of a set by a chain of pairs within the
\* tolerance
RECURSIVE Chained(_, _, _)
Chained(from, points, tol) ==
    LET more == {q \in points : \E p \in from : Near(p, q, tol)}
    IN  IF more \subseteq from THEN from ELSE Chained(from \cup more, points, tol)

\* the end points of the segments the graph is built from
EndpointSet == {Endpoints(segments)[i] : i \in 1..Len(Endpoints(segments))}

\* C20: after _cluster_endpoints has processed the end points, in whatever
\* order they arrive, any two of them within the tolerance of each other
\* have the same cluster, and so have any two joined by a chain of such
\* pairs.
C20_ClustersAreClosed ==
    (NetDone /\ segments # <<>>) =>
        LET mapping == _cluster_endpoints(Endpoints(segments), TolOf(streams)).mapping
        IN  \A p \in EndpointSet :
                \A q \in Chained({p}, EndpointSet, TolOf(streams)) :
                    mapping[p] = mapping[q]

(***************************************************************************)
(* _cluster_endpoints: the first cluster within the tolerance.             *)
(***************************************************************************)
RECURSIVE SumCoord(_, _, _)
SumCoord(points, members, k) ==
    IF members = {} THEN 0
    ELSE LET j == CHOOSE i \in members : TRUE
         IN  points[j][k] + SumCoord(points, members \ {j}, k)

\* the squared distance of a point to the mean of the points at the
\* positions members is at most tol^2 (both sides times the count squared)
NearMean(p, points, members, tol) ==
    LET n  == Cardinality(members)
        dx == n * p[1] - SumCoord(points, members, 1)
        dy == n * p[2] - SumCoord(points, members, 2)
    IN  dx * dx + dy * dy <= tol * tol * n * n

\* the clusters (counted from 0) of the first k points, one after the other:
\* each point goes to the lowest cluster whose members so far have their
\* mean within the tolerance, and opens a new cluster when there is none
RECURSIVE FirstMatch(_, _, _)
FirstMatch(points, k, tol) ==
    IF k = 0 THEN <<>>
    ELSE LET prev    == FirstMatch(points, k - 1, tol)
             count   == Cardinality({prev[j] : j \in 1..(k - 1)})
             of(c)   == {j \in 1..(k - 1) : prev[j] = c}
             hits    == {c \in 0..(count - 1) : NearMean(points[k], points, of(c), tol)}
         IN  Append(prev, IF hits = {} THEN count ELSE SetMin(hits))

\* the last position at which a point arrives
LastArrival(points, p) == SetMax({j \in 1..Len(points) : points[j] = p})

\* C21: _cluster_endpoints takes the end points in input order; each joins
\* the lowest-index cluster whose current centroid is within the tolerance
\* (boundary included), even when a later centroid is nearer, and opens a
\* new cluster only when there is none; the centroid of a cluster is the
\* mean of the end points assigned to it so far.
C21_FirstMatchInOrder ==
    (NetDone /\ segments # <<>>) =>
        LET points   == Endpoints(segments)
            tol      == TolOf(streams)
            clusters == _cluster_endpoints(points, tol)
            assigned == FirstMatch(points, Len(points), tol)
            of(c)    == {j \in 1..Len(points) : assigned[j] = c}
        IN  /\ \A j \in 1..Len(points) :
                  clusters.mapping[points[j]] = assigned[LastArrival(points, points[j])]
            /\ Len(clusters.centers) = Cardinality({assigned[j] : j \in 1..Len(points)})
            /\ \A i \in 1..Len(clusters.centers) :
                  clusters.centers[i] = [sx |-> SumCoord(points, of(i - 1), 1),
                                         sy |-> SumCoord(points, of(i - 1), 2),
                                         n  |-> Cardinality(of(i - 1))]

\* an end point within the tolerance of two clusters, the later one nearer,
\* has joined the earlier one
C21_Witness ==
    /\ NetDone
    /\ Endpoints(segments) = <<P0, P1, P0far, P3, P0near, P1>>
    /\ Near(P0near, P0, TolOf(streams))
    /\ Near(P0near, P0far, TolOf(streams))
    /\ \E radius \in 1..TolOf(streams) :
           Near(P0near, P0far, radius) /\ ~Near(P0near, P0, radius)
    /\ _cluster_endpoints(Endpoints(segments), TolOf(streams)).mapping[P0near] = 0

(***************************************************************************)
(* _build_graph: the graph is a well-formed undirected graph.              *)
(***************************************************************************)
GraphBuilt == npc \in {"sweepA", "sweepB", "done"} /\ segments # <<>>

\* how many entries (v, w) the adjacency of u holds
Entries(g, u, v, w) ==
    IF u \notin DOMAIN g.adj THEN 0
    ELSE Cardinality({i \in 1..Len(g.adj[u]) : g.adj[u][i] = <<v, w>>})

\* how many segments of length w run between the clusters u and v
Between(segs, mapping, u, v, w) ==
    Cardinality({i \in 1..Len(segs) :
                    /\ segs[i].len = w
                    /\ {mapping[segs[i].a], mapping[segs[i].b]} = {u, v}})

\* C22: the graph _build_graph returns has no self-loop, holds for every
\* entry (v, w) of u a matching entry (u, w) of v, holds exactly one such
\* pair for each segment whose end points have distinct clusters (and
\* nothing for the others), has only positive weights, and every neighbour
\* is a key.
C22_WellFormedGraph ==
    GraphBuilt =>
        LET mapping == _cluster_endpoints(Endpoints(segments), TolOf(streams)).mapping
            nodes   == {mapping[Endpoints(segments)[i]] : i \in 1..Len(Endpoints(segments))}
            weights == {segments[i].len : i \in 1..Len(segments)}
        IN  /\ DOMAIN graph.adj = Range(graph.keys)
            /\ \A u \in Range(graph.keys) :
                  \A i \in 1..Len(graph.adj[u]) :
                      /\ graph.adj[u][i][1] # u
                      /\ graph.adj[u][i][1] \in Range(graph.keys)
                      /\ graph.adj[u][i][2] > 0
                      /\ graph.adj[u][i][2] \in weights
                      /\ graph.adj[u][i][1] \in nodes
            /\ \A u \in nodes : \A v \in nodes : \A w \in weights :
                  /\ Entries(graph, u, v, w) = Entries(graph, v, u, w)
                  /\ Entries(graph, u, v, w)
                       = IF u = v THEN 0 ELSE Between(segments, mapping, u, v, w)

\* two segments between the same two clusters, and a segment dropped because
\* both its end points fall in one cluster
C22_Witness ==
    /\ GraphBuilt
    /\ Len(segments) = 3
    /\ Len(graph.keys) = 2
    /\ Len(graph.adj[graph.keys[1]]) = 2
    /\ \E i \in 1..Len(segments) :
           /\ segments[i].a # segments[i].b
           /\ _cluster_endpoints(Endpoints(segments), TolOf(streams)).mapping[segments[i].a]
                = _cluster_endpoints(Endpoints(segments), TolOf(streams)).mapping[segments[i].b]

(***************************************************************************)
(* _dijkstra: the distances from every start node.                         *)
(***************************************************************************)
\* C23: on the graph built (cycles and parallel edges included) and from
\* every start node, _dijkstra ends with a dist that holds exactly the nodes
\* reachable from the start, 0 for the start and for every other node the
\* least total weight of a path from the start, and with a far node whose
\* distance is the greatest in dist.
C23_ShortestDistances ==
    GraphBuilt =>
        \A u \in GraphNodes(graph) :
            LET run == _dijkstra(graph, u)
            IN  /\ DOMAIN run.dist = Component(graph, u)
                /\ run.dist[u] = 0
                /\ \A v \in Component(graph, u) :
                      run.dist[v] = ShortestPath(graph, u, v)
                /\ run.far_node \in Component(graph, u)
                /\ run.dist[run.far_node] = Eccentricity(graph, u)

\* a graph with a cycle in which an edge is longer than the distance between
\* its two nodes
C23_Witness ==
    /\ GraphBuilt
    /\ EdgeCount(graph) >= Cardinality(GraphNodes(graph))
    /\ \E u \in GraphNodes(graph) :
           \E i \in 1..Len(graph.adj[u]) :
               graph.adj[u][i][2] > ShortestPath(graph, u, graph.adj[u][i][1])
    /\ Cardinality(GraphNodes(graph)) >= 3

(***************************************************************************)
(* _hypsometric_table: every sample is counted once.                       *)
(***************************************************************************)
\* the sum of a sequence of numbers
Total(xs) == IF xs = <<>> THEN Whole(0) ELSE CumSum(xs)[Len(xs)]

\* the sample lies between the limits of the row: the lower limit included,
\* the upper one only in the last row
InClass(rows, i, z) ==
    /\ FLessEq(rows[i].limite_inferior, z)
    /\ IF i = Len(rows) THEN FLessEq(z, rows[i].limite_superior)
       ELSE FLess(z, rows[i].limite_superior)

\* C24: under each of the three schemes the limits of the classes span from
\* at most the least to at least the greatest valid sample, every valid
\* sample lies in exactly one class, and so the pixel counts sum to the
\* number of valid samples, the areas to that number times the pixel area,
\* and the percentages of the classes to 100.
C24_EverySampleCounted ==
    (HasTable /\ tabla_base # <<>>) =>
        LET rows == tabla_base
            last == Len(tabla_base)
        IN  /\ \A k \in DOMAIN elev :
                  /\ FLessEq(rows[1].limite_inferior, elev[k])
                  /\ FLessEq(elev[k], rows[last].limite_superior)
                  /\ Cardinality({i \in DOMAIN rows : InClass(rows, i, elev[k])}) = 1
            /\ \A i \in DOMAIN rows :
                  rows[i].area_m2 =
                      Whole(Cardinality({k \in DOMAIN elev : InClass(rows, i, elev[k])})
                              * pixel_area_m2)
            /\ Total([i \in DOMAIN rows |-> rows[i].area_m2])
                 = Whole(Len(elev) * pixel_area_m2)
            /\ Total([i \in DOMAIN rows |-> rows[i].area_km2])
                 = Frac(Len(elev) * pixel_area_m2, 1000000)
            /\ Total([i \in DOMAIN rows |-> rows[i].pct_clase]) = Whole(100)

\* three samples in three different classes, the greatest of them on the
\* upper limit of the last class
C24_Witness ==
    /\ HasTable
    /\ Len(elev) = 3
    /\ Cardinality({i \in DOMAIN tabla_base : tabla_base[i].area_m2 # Whole(0)}) = 3
    /\ \E k \in DOMAIN elev : elev[k] = tabla_base[Len(tabla_base)].limite_superior
    /\ esquema # "arcgis (100 m)"

(***************************************************************************)
(* _arcgis_bins: the class limits of the scheme of 100 m.                  *)
(***************************************************************************)
\* the class limits of the table, from the lowest to the highest
LimitsOf(rows) ==
    [i \in 1..(Len(rows) + 1) |->
        IF i <= Len(rows) THEN rows[i].limite_inferior
        ELSE rows[Len(rows)].limite_superior]

\* the limits begin at floor(zmin) and end at ceil(zmax), every class but
\* the first and the last is 100 wide, and the first class ends at the ...99
\* of the hundred of floor(zmin) unless ceil(zmax) comes first
ArcgisAligned(limits, zmin, zmax) ==
    LET n == Len(limits)
        first_upper == (Floor(zmin) \div 100) * 100 + 99
    IN  /\ limits[1] = Whole(Floor(zmin))
        /\ limits[n] = Whole(Ceil(zmax))
        /\ \A i \in 2..(n - 2) : FSub(limits[i + 1], limits[i]) = Whole(100)
        /\ limits[2] = Whole(IF first_upper >= Ceil(zmax) THEN Ceil(zmax) ELSE first_upper)

StrictlyIncreasing(limits) ==
    \A i \in 1..(Len(limits) - 1) : FLess(limits[i], limits[i + 1])

\* C25: for every elevation range the limits _arcgis_bins returns are
\* strictly increasing, begin at floor(zmin), end at ceil(zmax), every class
\* other than the first and the last is exactly 100 wide and the first class
\* ends at the boundary of the hundred that contains floor(zmin).
C25_Original ==
    (HasTable /\ tabla_base # <<>> /\ esquema = "arcgis (100 m)") =>
        /\ ArcgisAligned(LimitsOf(tabla_base), Lowest(Range(elev)), Highest(Range(elev)))
        /\ StrictlyIncreasing(LimitsOf(tabla_base))

\* C25, amended: the limits begin at floor(zmin), end at ceil(zmax), never
\* decrease, every class other than the first and the last is exactly 100
\* wide and the first class ends at the ...99 of the hundred of floor(zmin)
\* (at ceil(zmax) when that comes first).  They are strictly increasing
\* except that the first class has no width when floor(zmin) is itself a
\* ...99 or equals ceil(zmax).
C25_ArcgisEdges ==
    (HasTable /\ tabla_base # <<>> /\ esquema = "arcgis (100 m)") =>
        LET limits == LimitsOf(tabla_base)
            zmin_i == Floor(Lowest(Range(elev)))
            zmax_i == Ceil(Highest(Range(elev)))
        IN  /\ ArcgisAligned(limits, Lowest(Range(elev)), Highest(Range(elev)))
            /\ \A i \in 2..(Len(limits) - 1) : FLess(limits[i], limits[i + 1])
            /\ IF zmin_i % 100 = 99 \/ zmin_i = zmax_i
               THEN limits[1] = limits[2]
               ELSE FLess(limits[1], limits[2])

\* a first class without width below three classes of positive width
C25_Witness ==
    /\ HasTable
    /\ esquema = "arcgis (100 m)"
    /\ Len(tabla_base) >= 4
    /\ tabla_base[1].limite_inferior = tabla_base[1].limite_superior
    /\ FSub(tabla_base[2].limite_superior, tabla_base[2].limite_inferior) = Whole(100)
    /\ FSub(tabla_base[3].limite_superior, tabla_base[3].limite_inferior) = Whole(100)

(***************************************************************************)
(* _hypsometric_table: the two cumulative series.                          *)
(***************************************************************************)
\* the areas (km2) of the rows from and to
RECURSIVE AreaOfRows(_, _, _)
AreaOfRows(rows, from, to) ==
    IF from > to THEN Whole(0)
    ELSE FAdd(rows[from].area_km2, AreaOfRows(rows, from + 1, to))

\* C26: in every table of _hypsometric_table the cumulative area from the
\* bottom of a row is the sum of the areas of the rows up to it and the
\* cumulative area from the top the sum of the areas of the rows from it on;
\* so the two minus the area of the row give the total area, the first
\* series never decreases, the second never increases, and both cumulative
\* percentages lie between 0 and 100.
C26_PrefixAndSuffixSums ==
    (HasTable /\ tabla_base # <<>>) =>
        LET rows  == tabla_base
            last  == Len(tabla_base)
            total == AreaOfRows(tabla_base, 1, Len(tabla_base))
        IN  \A i \in DOMAIN rows :
                /\ rows[i].cum_km2_abajo = AreaOfRows(rows, 1, i)
                /\ rows[i].cum_km2_arriba = AreaOfRows(rows, i, last)
                /\ FSub(FAdd(rows[i].cum_km2_abajo, rows[i].cum_km2_arriba),
                        rows[i].area_km2) = total
                /\ i < last =>
                      /\ FLessEq(rows[i].cum_km2_abajo, rows[i + 1].cum_km2_abajo)
                      /\ FLessEq(rows[i + 1].cum_km2_arriba, rows[i].cum_km2_arriba)
                /\ FLessEq(Whole(0), rows[i].cum_pct_abajo)
                /\ FLessEq(rows[i].cum_pct_abajo, Whole(100))
                /\ FLessEq(Whole(0), rows[i].cum_pct_arriba)
                /\ FLessEq(rows[i].cum_pct_arriba, Whole(100))

\* three classes with pixels: the series from the bottom begins below the
\* series from the top
C26_Witness ==
    /\ HasTable
    /\ Cardinality({i \in DOMAIN tabla_base : tabla_base[i].area_m2 # Whole(0)}) = 3
    /\ FLess(tabla_base[1].cum_km2_abajo, tabla_base[1].cum_km2_arriba)
    /\ \E i \in DOMAIN tabla_base :
           /\ FLess(Whole(0), tabla_base[i].cum_pct_arriba)
           /\ FLess(tabla_base[i].cum_pct_arriba, Whole(50))

(***************************************************************************)
(* The stated selection rule, on the files on disk alone: among the raster *)
(* files below the folders whose name holds no token of EXCLUDE_TOKENS and *)
(* whose extent meets the watershed, the one first in sorted path order.   *)
(***************************************************************************)
HoldsToken(name) == \E i \in 1..Len(EXCLUDE_TOKENS) : Contains(Lower(name), EXCLUDE_TOKENS[i])

IsRaster(f) ==
    \/ EndsWith(Lower(f.name), <<".", "t", "i", "f">>)
    \/ EndsWith(Lower(f.name), <<".", "f", "l", "t">>) /\ f.hdr

Eligible(folders) ==
    {f \in disk : /\ \E i \in 1..Len(folders) : Below(f.dir, folders[i])
                  /\ IsRaster(f)
                  /\ ~ HoldsToken(f.name)
                  /\ f.covers}

RuleSelects(folders) ==
    IF Eligible(folders) = {} THEN PyNone
    ELSE LET first == CHOOSE f \in Eligible(folders) :
                          \A g \in Eligible(folders) : g = f \/ PathLess(PathOf(f), PathOf(g))
         IN [path |-> PathOf(first)]

SelDone == spc = "done"

\* C27: both selectors return the first raster, in sorted path order, whose
\* name holds no derived-product token and whose extent meets the watershed,
\* and nothing exactly when there is none: the morphometry's selector and
\* the hypsometric curve's apply the same rule
C27_SameSelectionRule ==
    SelDone =>
        /\ mret = RuleSelects(DEM_FOLDERS_DEFAULT)
        /\ hret = RuleSelects(DEM_SEARCH_FOLDERS)

\* what does hold of the two: the hypsometric curve's selector follows the
\* rule, and neither returns a file whose name holds a token
C27_HypsFollowsRule ==
    SelDone =>
        /\ hret = RuleSelects(DEM_SEARCH_FOLDERS)
        /\ \A r \in {mret, hret} : r # PyNone => ~ HoldsToken(OnDisk(r.path).name)

\* a flow-accumulation raster and an elevation raster both cover the
\* watershed: the morphometry takes the elevation, the curve the other
C27_Disagree ==
    /\ SelDone
    /\ mret # PyNone
    /\ hret # PyNone
    /\ OnDisk(mret.path).dir = OnDisk(hret.path).dir
    /\ mret # hret


(***************************************************************************)
(* The entries of the session after some requests.                         *)
(***************************************************************************)
Requested == nreq >= 1

Loaded(out) == out.file /\ out.watershed

\* C28: after any sequence of requests the entries written by a request all
\* come from one and the same request, a layer that the latest loaded
\* output does not hold is absent, and morpho is not older than geojson
C28_OneRequest ==
    Requested =>
        /\ \A j, k \in SessionKeys : session[j] # 0 /\ session[k] # 0 => session[j] = session[k]
        /\ \A k \in OptionalLayers : Loaded(latest) /\ k \notin latest.layers => session[k] = 0
        /\ session["morpho"] # 0 => session["morpho"] >= session["geojson"]

\* the second request gives a watershed without the high-resolution streams
\* that the first one had: the map draws the new watershed and connects the
\* points to the streams of the old one
C28_StaleLayerDrawn ==
    /\ nreq = 2
    /\ Loaded(latest)
    /\ latest.compute
    /\ "streams_hr" \notin latest.layers
    /\ shown.watershed = 2
    /\ shown.connectors = 1

\* compute raises on the second request: geojson is the new watershed and
\* morpho still describes the first
C28_StaleMorpho ==
    /\ nreq = 2
    /\ session["geojson"] = 2
    /\ session["morpho"] = 1


(***************************************************************************)
(* The sinuosity compute reports.                                          *)
(***************************************************************************)
ChannelAvailable == ~ IsNaN(morpho.longitud_cp_km)

Reported == cpc = "done" /\ ~ IsError(morpho)

\* C29: when the length of the main channel is available the sinuosity
\* reported is 1.03 and its class "Rectilineo", whatever the streams are,
\* and the straight length is a length; when it is not available the
\* straight length, the sinuosity and the class are NaN
C29_SinuosityIsTheTarget ==
    Reported =>
        IF ChannelAvailable
        THEN /\ morpho.factor_sinuosidad = Frac(103, 100)
             /\ morpho.clasificacion_sinuosidad = Str("Rectilineo")
             /\ IsNum(morpho.longitud_cp_l_km)
             /\ FLessEq(morpho.longitud_cp_l_km, morpho.longitud_cp_km)
        ELSE /\ IsNaN(morpho.longitud_cp_l_km)
             /\ IsNaN(morpho.factor_sinuosidad)
             /\ IsNaN(morpho.clasificacion_sinuosidad)

\* a network of two reaches end to end, its main channel measured
C29_Witness ==
    /\ Reported
    /\ ChannelAvailable
    /\ Len(streams_gdf.rows) = 2
    /\ FLess(Whole(0), morpho.longitud_cp_l_km)
    /\ morpho.factor_sinuosidad = Frac(103, 100)

\* streams given, none of them a channel between two nodes
C29_WitnessNoChannel ==
    /\ Reported
    /\ ~ streams_gdf.none
    /\ streams_gdf.rows # <<>>
    /\ ~ ChannelAvailable
    /\ IsNaN(morpho.factor_sinuosidad)


(***************************************************************************)
(* The UTM code of a centroid.                                             *)
(***************************************************************************)
InDegrees ==
    /\ FLessEq(Whole(-180), centroid.lon) /\ FLessEq(centroid.lon, Whole(180))
    /\ FLessEq(Whole(-90), centroid.lat) /\ FLessEq(centroid.lat, Whole(90))

North == FLessEq(Whole(0), centroid.lat)

ZoneReturned == utm_epsg - (IF North THEN 32600 ELSE 32700)

\* zone z spans the six degrees from -180 + 6 (z - 1); its two meridians
\* are counted to it
ZoneHolds(z, lon) ==
    /\ FLessEq(Whole(6 * (z - 1) - 180), lon)
    /\ FLessEq(lon, Whole(6 * z - 180))

\* C30: for a centroid with longitude in [-180, 180] and latitude in
\* [-90, 90] the code returned is 32600 + zone in the north and 32700 + zone
\* in the south, with a zone in 1..60 that holds the longitude
C30_ValidUtmCode ==
    upc = "done" /\ InDegrees =>
        /\ ZoneReturned \in 1..60
        /\ ZoneHolds(ZoneReturned, centroid.lon)

\* the same short of the antimeridian: there the zone is one of the sixty
C30_BelowAntimeridian ==
    upc = "done" /\ InDegrees /\ centroid.lon # Whole(180) =>
        /\ ZoneReturned \in 1..60
        /\ ZoneHolds(ZoneReturned, centroid.lon)

\* a centroid on the antimeridian gets zone 61
C30_ZoneSixtyOne ==
    /\ upc = "done"
    /\ centroid.lon = Whole(180)
    /\ utm_epsg \in {32661, 32761}


====
